---- MODULE Spec2Model ----
(***************************************************************************)
(* A model of thread_safe::HashMap (HashMap.h), its Bucket and Node        *)
(* (Bucket.h), its forward iterator (IteratorHelper.h) and the Reference   *)
(* accessor (Reference.h).                                                 *)
(*                                                                         *)
(* The heap is explicit: every Node is a record with m_prev, m_next and    *)
(* m_value, addressed by a node id; a Bucket is its sentinel m_end, its    *)
(* m_size and its recursive mutex.                                         *)
(*                                                                         *)
(* Spec is one client calling the map, each call running to its return;    *)
(* SpecLife is one client of two maps that are constructed, copied, moved  *)
(* and destroyed, SpecMove two maps under move assignment, SpecRange a map *)
(* built from a sequence, and SpecPair the client of Spec writing whole    *)
(* pairs through a Reference.                                              *)
(* SpecIns, SpecSame, SpecBkt and SpecAsg are threads whose calls          *)
(* interleave statement by statement: inserts into different buckets,      *)
(* inserts of one key, calls on the keys of one bucket, and assignment     *)
(* between two maps next to other calls. SpecRead is an insert next to a   *)
(* find of the same key, SpecSize a size() next to an insert and an erase, *)
(* and SpecAcc threads that set and read one node through accessors.       *)
(***************************************************************************)
EXTENDS Integers, Sequences, FiniteSets, TLC

\* ------------------------------------------------------------------ bounds
BUCKET_COUNT == 2        \* template parameter BUCKET_COUNT of the model's maps
MaxKey == 2              \* keys are 0 .. MaxKey
MaxNodes == 3            \* data nodes that can be allocated at one time

\* --------------------------------------------------------- program constants
NULL == 0                \* nullptr
DefaultKey == 0          \* KeyT()   for KeyT = int
DefaultVal == 0          \* MappedT() for MappedT = char

Keys == 0 .. MaxKey
\* mapped values: MappedT() and one other value
Vals == {DefaultVal, DefaultVal + 1}
Indexes == 0 .. (BUCKET_COUNT - 1)

\* Bucket arrays (new Bucket[BUCKET_COUNT]): array A is owned by map "a" and
\* array B by map "b" after construction.
Arrays == {0, 1}
Buckets == 0 .. (2 * BUCKET_COUNT - 1)
BucketOf(a, i) == a * BUCKET_COUNT + i

\* Node ids: the sentinel of bucket b is node b + 1 (allocated by Bucket()),
\* data nodes follow.
SentinelIds == 1 .. (2 * BUCKET_COUNT)
DataIds == (2 * BUCKET_COUNT + 1) .. (2 * BUCKET_COUNT + MaxNodes)
NodeIds == SentinelIds \cup DataIds

\* Pair<T1, T2>, and its default constructor
make_pair(f, s) == <<f, s>>
DefaultPair == make_pair(DefaultKey, DefaultVal)

\* Node() that leaves a value other than ValueT() in m_value
NewNode_other ==
    [m_prev |-> NULL, m_next |-> NULL, m_value |-> make_pair(DefaultKey, DefaultVal + 1)]

\* Node(): both links null, the value default constructed
NewNode == [m_prev |-> NULL, m_next |-> NULL, m_value |-> DefaultPair]

\* std::hash<int> is the identity
Hash(key) == key

VARIABLES
    nodes,      \* the heap: node id -> Node
    live,       \* the node ids that are allocated (new'ed and not deleted)
    m_size,     \* bucket -> Bucket::m_size
    it,         \* the iterator the client holds (NoIt: none that is usable)
    ret,        \* the last call and what it returned
    contents,   \* the logical contents of map "a": key -> value or Absent
    mode,       \* "none", or the loop the client is in: "walk", "erase"
    walk,       \* the pairs read by the walk so far
    size0,      \* size() when the loop (or the threads) started
    pc,         \* thread -> where the thread is in its call
    loc,        \* thread -> the call's arguments and local variables
    mutex,      \* bucket -> Bucket::m_mutex: its owner (0: none) and depth
    top,        \* map -> HashMap::m_mutex: its owner (0: none) and depth
    m_buckets   \* map -> HashMap::m_buckets: a bucket array, or NoArray

clientvars == <<it, ret, mode, walk>>
threadvars == <<pc, loc, mutex, top, m_buckets>>
vars == <<nodes, live, m_size, it, ret, contents, mode, walk, size0,
          pc, loc, mutex, top, m_buckets>>

Absent == DefaultVal - 1
NoIt == [m_index |-> -1, m_ref |-> NULL]

\* ------------------------------------------------------------------ Bucket
\* A heap value h is [nodes, live, m_size].
Heap == [nodes |-> nodes, live |-> live, m_size |-> m_size]

\* Bucket::end(): m_end
B_end(b) == b + 1

\* Bucket::begin(): m_end->m_next
B_begin(h, b) == h.nodes[B_end(b)].m_next

\* Bucket::empty()
B_empty(h, b) == B_begin(h, b) = B_end(b)

\* Bucket::size()
B_size(h, b) == h.m_size[b]

\* KeyEqualT = std::equal_to<KeyT>
KeyEqual(k1, k2) == k1 = k2

\* Bucket::find: the scan from begin() to end()
RECURSIVE FindFrom(_, _, _, _)
FindFrom(h, b, node, key) ==
    IF node = B_end(b) THEN node
    ELSE IF KeyEqual(h.nodes[node].m_value[1], key) THEN node
    ELSE FindFrom(h, b, h.nodes[node].m_next, key)

B_find(h, b, key) == FindFrom(h, b, B_begin(h, b), key)

\* new Node<ValueT>(): the lowest free address
Alloc(h) == CHOOSE n \in DataIds \ h.live : \A m \in DataIds \ h.live : n <= m

CanAlloc(h) == DataIds \ h.live # {}

\* The four link writes with the node put at the head of the list
LinkHead(ns, b, n) ==
    LET end == B_end(b)
        n1 == [ns EXCEPT ![n].m_prev = end]
        n2 == [n1 EXCEPT ![n].m_next = n1[end].m_next]
        n3 == [n2 EXCEPT ![n2[n].m_next].m_prev = n]
        n4 == [n3 EXCEPT ![n3[n].m_prev].m_next = n]
    IN n4

\* The four link writes of insert / insert_or_assign: the node goes to the tail
LinkTail(ns, b, n) ==
    LET end == B_end(b)
        n1 == [ns EXCEPT ![n].m_next = end]
        n2 == [n1 EXCEPT ![n].m_prev = n1[end].m_prev]
        n3 == [n2 EXCEPT ![n2[n].m_next].m_prev = n]
        n4 == [n3 EXCEPT ![n3[n].m_prev].m_next = n]
    IN n4

\* B_link without ++m_size
B_link_nocount(h, b) ==
    LET n == Alloc(h)
    IN [nodes |-> LinkTail([h.nodes EXCEPT ![n] = NewNode], b, n),
        live |-> h.live \cup {n},
        m_size |-> h.m_size]

\* result = new Node; link; ++m_size
B_link(h, b) ==
    LET n == Alloc(h)
    IN [nodes |-> LinkTail([h.nodes EXCEPT ![n] = NewNode], b, n),
        live |-> h.live \cup {n},
        m_size |-> [h.m_size EXCEPT ![b] = @ + 1]]

\* m_value.store(value) that writes the key and not the mapped value
Store_first(h, n, value) ==
    [h EXCEPT !.nodes[n].m_value = make_pair(value[1], @[2])]

\* m_value.store(value) that leaves the node as it was
Store_lost(h, n, value) == h

\* m_value.store(value)
Store(h, n, value) == [h EXCEPT !.nodes[n].m_value = value]

\* Bucket::insert without the value write on the new node
B_insert_unstored(h, b, value) ==
    LET result == FindFrom(h, b, B_begin(h, b), value[1])
    IN IF result # B_end(b)
       THEN [h |-> h, first |-> result, second |-> FALSE]
       ELSE [h |-> B_link(h, b), first |-> Alloc(h), second |-> TRUE]

\* Bucket::insert that writes the value on the node it found
B_insert_overwrite(h, b, value) ==
    LET result == FindFrom(h, b, B_begin(h, b), value[1])
    IN IF result # B_end(b)
       THEN [h |-> Store(h, result, value), first |-> result, second |-> FALSE]
       ELSE LET n == Alloc(h)
            IN [h |-> Store(B_link(h, b), n, value), first |-> n, second |-> TRUE]

\* Bucket::insert
B_insert(h, b, value) ==
    LET result == B_find(h, b, value[1])
    IN IF result # B_end(b)
       THEN [h |-> h, first |-> result, second |-> FALSE]
       ELSE LET n == Alloc(h)
            IN [h |-> Store(B_link(h, b), n, value), first |-> n, second |-> TRUE]

\* Bucket::insert_or_assign that leaves the node it found as it is
B_insert_or_assign_keep(h, b, value) ==
    LET found == FindFrom(h, b, B_begin(h, b), value[1])
    IN IF found = B_end(b)
       THEN [h |-> Store(B_link(h, b), Alloc(h), value), first |-> Alloc(h)]
       ELSE [h |-> h, first |-> found]

\* Bucket::insert_or_assign
B_insert_or_assign(h, b, value) ==
    LET found == B_find(h, b, value[1])
        result == IF found = B_end(b) THEN Alloc(h) ELSE found
        h1 == IF found = B_end(b) THEN B_link(h, b) ELSE h
    IN [h |-> Store(h1, result, value), first |-> result]

\* Bucket::erase(Node*) without --m_size
B_erase_node_nocount(h, b, node) ==
    IF node = B_end(b) THEN h
    ELSE LET n1 == [h.nodes EXCEPT ![h.nodes[node].m_next].m_prev = h.nodes[node].m_prev]
             n2 == [n1 EXCEPT ![n1[node].m_prev].m_next = n1[node].m_next]
         IN [nodes |-> [n2 EXCEPT ![node] = NewNode],
             live |-> h.live \ {node},
             m_size |-> h.m_size]

\* Bucket::erase(Node*)
B_erase_node(h, b, node) ==
    IF node = B_end(b) THEN h
    ELSE LET n1 == [h.nodes EXCEPT ![h.nodes[node].m_next].m_prev = h.nodes[node].m_prev]
             n2 == [n1 EXCEPT ![n1[node].m_prev].m_next = n1[node].m_next]
         IN [nodes |-> [n2 EXCEPT ![node] = NewNode],
             live |-> h.live \ {node},
             m_size |-> [h.m_size EXCEPT ![b] = @ - 1]]

\* Bucket::erase(const KeyT&)
B_erase(h, b, key) == B_erase_node(h, b, B_find(h, b, key))

\* Bucket::clear
\* Bucket::clear that erases the first node only
B_clear_one(h, b) ==
    IF B_begin(h, b) = B_end(b) THEN h
    ELSE B_erase_node(h, b, B_begin(h, b))

\* The nodes Bucket::clear deletes, in the order of its erase calls
RECURSIVE B_clear_deleted(_, _)
B_clear_deleted(h, b) ==
    IF B_begin(h, b) = B_end(b) THEN <<>>
    ELSE <<B_begin(h, b)>> \o B_clear_deleted(B_erase_node(h, b, B_begin(h, b)), b)

RECURSIVE B_clear(_, _)
B_clear(h, b) ==
    IF B_begin(h, b) = B_end(b) THEN h
    ELSE B_clear(B_erase_node(h, b, B_begin(h, b)), b)

\* ---------------------------------------------------------- IteratorHelper
\* IteratorHelper(buckets, index, node). With index = BUCKET_COUNT the test
\* m_buckets[m_index].end() == node reads one bucket past the array: oob is
\* the pointer that read yields.
Iterator(a, index, node, oob) ==
    LET end == IF index < BUCKET_COUNT THEN B_end(BucketOf(a, index)) ELSE oob
    IN [m_index |-> IF end = node THEN BUCKET_COUNT ELSE index, m_ref |-> node]

\* What a read past the bucket array can yield
OobVals == {NULL, B_end(0)}

\* the do-while of operator++: the next non-empty bucket after index, or
\* BUCKET_COUNT
RECURSIVE NextNonEmpty(_, _, _)
NextNonEmpty(h, a, index) ==
    IF index + 1 # BUCKET_COUNT /\ B_empty(h, BucketOf(a, index + 1))
    THEN NextNonEmpty(h, a, index + 1)
    ELSE index + 1

\* operator++ that moves to the next bucket without skipping the empty ones
Incr_noskip(h, a, i) ==
    LET ref == h.nodes[i.m_ref].m_next
    IN IF ref = B_end(BucketOf(a, i.m_index))
       THEN LET index == i.m_index + 1
            IN [m_index |-> index,
                m_ref |-> IF index # BUCKET_COUNT
                          THEN B_begin(h, BucketOf(a, index)) ELSE ref]
       ELSE [m_index |-> i.m_index, m_ref |-> ref]

\* IteratorHelper::operator++ (prefix), on a dereferenceable iterator
Incr(h, a, i) ==
    LET ref == h.nodes[i.m_ref].m_next
    IN IF ref = B_end(BucketOf(a, i.m_index))
       THEN LET index == NextNonEmpty(h, a, i.m_index)
            IN [m_index |-> index,
                m_ref |-> IF index # BUCKET_COUNT
                          THEN B_begin(h, BucketOf(a, index)) ELSE ref]
       ELSE [m_index |-> i.m_index, m_ref |-> ref]

\* IteratorHelper::operator==
IterEq(x, y) ==
    \/ x.m_index = BUCKET_COUNT /\ y.m_index = BUCKET_COUNT
    \/ x.m_ref = y.m_ref

\* ---------------------------------------------------------------- Reference
\* Reference::get_pair, Reference::get
R_get_pair(h, node) == h.nodes[node].m_value
R_get(h, node) == h.nodes[node].m_value[2]

\* Reference::set: the key is loaded, the pair (key, value) stored
R_set(h, node, value) ==
    LET key == h.nodes[node].m_value[1]
    IN Store(h, node, make_pair(key, value))

\* Reference::set_pair: the pair is stored as it is given
R_set_pair(h, node, value) == Store(h, node, value)

\* ------------------------------------------------------------------ HashMap
\* m_hasher(key) % BUCKET_COUNT
BucketIndex(key) == Hash(key) % BUCKET_COUNT

\* HashMap::insert
HM_insert(h, a, key, value) ==
    LET bucket_index == BucketIndex(key)
        result == B_insert(h, BucketOf(a, bucket_index), make_pair(key, value))
    IN [h |-> result.h,
        first |-> Iterator(a, bucket_index, result.first, NULL),
        second |-> result.second]

\* HashMap::insert_or_assign
HM_insert_or_assign(h, a, key, value) ==
    LET bucket_index == BucketIndex(key)
        result == B_insert_or_assign(h, BucketOf(a, bucket_index), make_pair(key, value))
    IN [h |-> result.h, first |-> Iterator(a, bucket_index, result.first, NULL)]

\* HashMap::erase(const key_type&)
HM_erase(h, a, key) == B_erase(h, BucketOf(a, BucketIndex(key)), key)

\* HashMap::erase(iterator) that advances only after the node is erased
HM_erase_it_late(h, a, position) ==
    LET key == R_get_pair(h, position.m_ref)[1]
        h1 == HM_erase(h, a, key)
    IN [h |-> h1, next |-> Incr(h1, a, position)]

\* HashMap::erase(iterator), on a dereferenceable iterator
HM_erase_it(h, a, position) ==
    LET next == Incr(h, a, position)
        key == R_get_pair(h, position.m_ref)[1]
    IN [h |-> HM_erase(h, a, key), next |-> next]

\* HashMap::find
HM_find(h, a, key) ==
    LET bucket_index == BucketIndex(key)
    IN Iterator(a, bucket_index, B_find(h, BucketOf(a, bucket_index), key), NULL)

\* HashMap::end
HM_end(a, oob) == Iterator(a, BUCKET_COUNT, NULL, oob)

\* HashMap::operator[] without the insert of an absent key
HM_index_find(h, a, key, oob) == [h |-> h, iter |-> HM_find(h, a, key)]

\* HashMap::operator[]: the iterator whose Reference is returned
HM_index(h, a, key, oob) ==
    LET iter == HM_find(h, a, key)
    IN IF IterEq(iter, HM_end(a, oob))
       THEN LET r == HM_insert(h, a, key, DefaultVal)
            IN [h |-> r.h, iter |-> r.first]
       ELSE [h |-> h, iter |-> iter]

\* HashMap::clear: the buckets from index on
RECURSIVE ClearFrom(_, _, _)
ClearFrom(h, a, i) ==
    IF i = BUCKET_COUNT THEN h
    ELSE ClearFrom(B_clear(h, BucketOf(a, i)), a, i + 1)

HM_clear(h, a) == ClearFrom(h, a, 0)

\* The nodes HashMap::clear deletes, bucket after bucket
RECURSIVE DeletedFrom(_, _, _)
DeletedFrom(h, a, i) ==
    IF i = BUCKET_COUNT THEN <<>>
    ELSE B_clear_deleted(h, BucketOf(a, i))
           \o DeletedFrom(B_clear(h, BucketOf(a, i)), a, i + 1)

HM_clear_deleted(h, a) == DeletedFrom(h, a, 0)

\* HashMap::size: the sum of the buckets' m_size
RECURSIVE SizeFrom(_, _, _)
SizeFrom(h, a, i) ==
    IF i = BUCKET_COUNT THEN 0
    ELSE B_size(h, BucketOf(a, i)) + SizeFrom(h, a, i + 1)

HM_size(h, a) == SizeFrom(h, a, 0)

\* HashMap::empty
HM_empty(h, a) == \A i \in Indexes : B_empty(h, BucketOf(a, i))

\* the while loop of HashMap::begin: the first non-empty bucket from index
RECURSIVE FirstNonEmpty(_, _, _)
FirstNonEmpty(h, a, index) ==
    IF index < BUCKET_COUNT /\ B_empty(h, BucketOf(a, index))
    THEN FirstNonEmpty(h, a, index + 1)
    ELSE index

\* HashMap::begin that does not skip the empty buckets
HM_begin_noskip(h, a, oob) ==
    Iterator(a, 0, B_begin(h, BucketOf(a, 0)), NULL)

\* HashMap::begin
HM_begin(h, a, oob) ==
    LET bucket_index == FirstNonEmpty(h, a, 0)
    IN IF bucket_index = BUCKET_COUNT
       THEN Iterator(a, BUCKET_COUNT, NULL, oob)
       ELSE Iterator(a, bucket_index, B_begin(h, BucketOf(a, bucket_index)), NULL)

\* --------------------------------------------------- one client, map "a"
\* The calls of one thread on map "a", whose m_buckets is array 0. Each call
\* runs to its return. The client keeps the iterator the last call returned
\* (while the node it refers to is allocated) and dereferences it (*it) for
\* the Reference it writes through.
MapA == 0

SetHeap(h) ==
    /\ nodes' = h.nodes
    /\ live' = h.live
    /\ m_size' = h.m_size

Ret(op, key, val, ok, n) == [op |-> op, key |-> key, val |-> val, ok |-> ok, n |-> n]

\* An iterator is usable while its node is allocated
KeepIt(i, h) == IF i.m_ref = NULL \/ i.m_ref \in h.live THEN i ELSE NoIt

\* *it, it-> and ++it need an iterator that refers to an entry
Deref(i) == i # NoIt /\ i.m_index < BUCKET_COUNT

NoLoop ==
    /\ mode' = "none"
    /\ walk' = <<>>
    /\ size0' = 0

InitHeap ==
    /\ nodes = [n \in NodeIds |->
                  IF n \in SentinelIds
                  THEN [m_prev |-> n, m_next |-> n, m_value |-> DefaultPair]
                  ELSE NewNode]
    /\ live = SentinelIds
    /\ m_size = [b \in Buckets |-> 0]

\* std::recursive_mutex, unlocked
Unlocked == [owner |-> 0, depth |-> 0]

\* m_buckets == nullptr (the bucket arrays are numbered from 0)
NoArray == NULL - 1

\* The maps a and b, each with the bucket array its constructor allocated
Maps == {0, 1}

\* No thread is running
NoThreads ==
    /\ pc = <<>>
    /\ loc = <<>>
    /\ mutex = [b \in Buckets |-> Unlocked]
    /\ top = [m \in Maps |-> Unlocked]
    /\ m_buckets = [m \in Maps |-> m]

Init ==
    /\ InitHeap
    /\ NoThreads
    /\ it = NoIt
    /\ ret = Ret("init", 0, 0, FALSE, 0)
    /\ contents = [k \in Keys |-> Absent]
    /\ mode = "none"
    /\ walk = <<>>
    /\ size0 = 0

\* new Node can fail only by exhausting the model's node pool
Room(key) ==
    \/ CanAlloc(Heap)
    \/ B_find(Heap, BucketOf(MapA, BucketIndex(key)), key)
         # B_end(BucketOf(MapA, BucketIndex(key)))

\* map.insert(k, v)
Insert(k, v) ==
    /\ Room(k)
    /\ LET r == HM_insert(Heap, MapA, k, v)
       IN /\ SetHeap(r.h)
          /\ it' = r.first
          /\ ret' = Ret("insert", k, v, r.second, 0)
    /\ contents' = IF contents[k] = Absent THEN [contents EXCEPT ![k] = v] ELSE contents
    /\ NoLoop
    /\ UNCHANGED threadvars

\* map.insert_or_assign(k, v)
InsertOrAssign(k, v) ==
    /\ Room(k)
    /\ LET r == HM_insert_or_assign(Heap, MapA, k, v)
       IN /\ SetHeap(r.h)
          /\ it' = r.first
          /\ ret' = Ret("insert_or_assign", k, v, FALSE, 0)
    /\ contents' = [contents EXCEPT ![k] = v]
    /\ NoLoop
    /\ UNCHANGED threadvars

\* map.erase(k)
EraseKey(k) ==
    /\ LET h == HM_erase(Heap, MapA, k)
       IN /\ SetHeap(h)
          /\ it' = KeepIt(it, h)
    /\ ret' = Ret("erase", k, 0, contents[k] # Absent, 0)
    /\ contents' = [contents EXCEPT ![k] = Absent]
    /\ NoLoop
    /\ UNCHANGED threadvars

\* it = map.erase(it)
EraseIt ==
    /\ Deref(it)
    /\ LET r == HM_erase_it(Heap, MapA, it)
           p == R_get_pair(Heap, it.m_ref)
       IN /\ SetHeap(r.h)
          /\ it' = KeepIt(r.next, r.h)
          /\ ret' = Ret("erase_it", p[1], p[2], FALSE, 0)
          /\ contents' = [contents EXCEPT ![p[1]] = Absent]
          /\ IF mode = "begin" \/ mode = "erase"
             THEN mode' = "erase" /\ walk' = Append(walk, p) /\ size0' = size0
             ELSE NoLoop
    /\ UNCHANGED threadvars

\* it = map.find(k)
Find(k) ==
    /\ it' = HM_find(Heap, MapA, k)
    /\ ret' = Ret("find", k, 0, ~IterEq(it', HM_end(MapA, NULL)), 0)
    /\ NoLoop
    /\ UNCHANGED <<nodes, live, m_size, contents>>
    /\ UNCHANGED threadvars

\* map[k]: the Reference returned is *it
Index(k) ==
    /\ Room(k)
    /\ \E oob \in OobVals :
         LET r == HM_index(Heap, MapA, k, oob)
         IN /\ SetHeap(r.h)
            /\ it' = r.iter
    /\ ret' = Ret("index", k, 0, FALSE, 0)
    /\ contents' = IF contents[k] = Absent
                   THEN [contents EXCEPT ![k] = DefaultVal] ELSE contents
    /\ NoLoop
    /\ UNCHANGED threadvars

\* (*it).set(v), also written *it = v
RefSet(v) ==
    /\ Deref(it)
    /\ LET key == R_get_pair(Heap, it.m_ref)[1]
       IN /\ SetHeap(R_set(Heap, it.m_ref, v))
          /\ ret' = Ret("set", key, v, FALSE, 0)
          /\ contents' = [contents EXCEPT ![key] = v]
    /\ NoLoop
    /\ UNCHANGED it
    /\ UNCHANGED threadvars

\* map.clear()
Clear ==
    /\ LET h == HM_clear(Heap, MapA)
       IN /\ SetHeap(h)
          /\ it' = KeepIt(it, h)
    /\ ret' = Ret("clear", 0, 0, FALSE, HM_size(Heap, MapA))
    /\ contents' = [k \in Keys |-> Absent]
    /\ NoLoop
    /\ UNCHANGED threadvars

\* map.size()
Size ==
    /\ ret' = Ret("size", 0, 0, FALSE, HM_size(Heap, MapA))
    /\ UNCHANGED <<nodes, live, m_size, it, contents, mode, walk, size0>>
    /\ UNCHANGED threadvars

\* map.empty()
Empty ==
    /\ ret' = Ret("empty", 0, 0, HM_empty(Heap, MapA), 0)
    /\ UNCHANGED <<nodes, live, m_size, it, contents, mode, walk, size0>>
    /\ UNCHANGED threadvars

\* it = map.begin(): the start of a loop over the map
Begin ==
    /\ \E oob \in OobVals : it' = HM_begin(Heap, MapA, oob)
    /\ ret' = Ret("begin", 0, 0, FALSE, 0)
    /\ mode' = "begin"
    /\ walk' = <<>>
    /\ size0' = HM_size(Heap, MapA)
    /\ UNCHANGED <<nodes, live, m_size, contents>>
    /\ UNCHANGED threadvars

\* it = map.end()
End ==
    /\ \E oob \in OobVals : it' = HM_end(MapA, oob)
    /\ ret' = Ret("end", 0, 0, FALSE, 0)
    /\ NoLoop
    /\ UNCHANGED <<nodes, live, m_size, contents>>
    /\ UNCHANGED threadvars

\* the pair at it is read, then ++it
Next_it ==
    /\ Deref(it)
    /\ it' = Incr(Heap, MapA, it)
    /\ ret' = Ret("incr", 0, 0, FALSE, 0)
    /\ IF mode = "begin" \/ mode = "walk"
       THEN /\ mode' = "walk"
            /\ walk' = Append(walk, R_get_pair(Heap, it.m_ref))
            /\ size0' = size0
       ELSE NoLoop
    /\ UNCHANGED <<nodes, live, m_size, contents>>
    /\ UNCHANGED threadvars

Next ==
    \/ \E k \in Keys, v \in Vals : Insert(k, v)
    \/ \E k \in Keys, v \in Vals : InsertOrAssign(k, v)
    \/ \E k \in Keys : EraseKey(k)
    \/ EraseIt
    \/ \E k \in Keys : Find(k)
    \/ \E k \in Keys : Index(k)
    \/ \E v \in Vals : RefSet(v)
    \/ Clear
    \/ Size
    \/ Empty
    \/ Begin
    \/ End
    \/ Next_it

Spec == Init /\ [][Next]_vars

\* (*it).set_pair(p), also written *it = p. The logical contents follow the
\* pair that find's scan reads at the node.
RefSetPair(p) ==
    /\ Deref(it)
    /\ LET key == R_get_pair(Heap, it.m_ref)[1]
       IN /\ SetHeap(R_set_pair(Heap, it.m_ref, p))
          /\ ret' = Ret("set_pair", p[1], p[2], FALSE, 0)
          /\ contents' = [[contents EXCEPT ![key] = Absent] EXCEPT ![p[1]] = p[2]]
    /\ NoLoop
    /\ UNCHANGED it
    /\ UNCHANGED threadvars

\* The client inserts, erases and finds, and writes through the cursor it
\* holds with set and set_pair
NextPair ==
    \/ \E k \in Keys, v \in Vals : Insert(k, v)
    \/ \E k \in Keys : EraseKey(k)
    \/ \E k \in Keys : Find(k)
    \/ \E v \in Vals : RefSet(v)
    \/ \E p \in Keys \X Vals : RefSetPair(p)

SpecPair == Init /\ [][NextPair]_vars

\* ----------------------------------------------------------------- threads
\* Calls that run concurrently. A thread t is at pc[t] inside its call, with
\* the call's arguments and locals in loc[t]; one action is one step that the
\* other threads can observe. A thread that reads through a null m_buckets
\* stops at "fault".
heapvars == <<nodes, live, m_size>>
ghostvars == <<it, ret, contents, mode, walk, size0>>

\* lock() on a std::recursive_mutex returns when no other thread owns it
Acquirable(mx, t) == mx.owner = 0 \/ mx.owner = t

Acquire(mx, t) == [owner |-> t, depth |-> mx.depth + 1]

Release(mx) == IF mx.depth = 1 THEN Unlocked ELSE [mx EXCEPT !.depth = @ - 1]

\* The arguments of a call and its locals before it starts
Locals(op, m, that, key, val) ==
    [op |-> op, m |-> m, that |-> that, key |-> key, val |-> val,
     bucket |-> 0, bucket_index |-> 0, node |-> NULL, result |-> NULL,
     second |-> FALSE, first |-> NoIt, i |-> 0, s |-> 0, deleted |-> <<>>]

Step(t, label, l) ==
    /\ pc' = [pc EXCEPT ![t] = label]
    /\ loc' = [loc EXCEPT ![t] = l]

\* What a read of a pointer from a deleted node can yield: the address of any
\* node (what the node held when it was deleted is one of them). A null or
\* wild pointer stops the thread at its next use.
Garbage == NodeIds

\* HashMap::insert and HashMap::insert_or_assign: bucket_index, and the
\* bucket m_buckets[bucket_index]
InsertCall(t) ==
    /\ pc[t] \in {"insert", "insert_or_assign"}
    /\ LET l == loc[t]
           bucket_index == BucketIndex(l.key)
       IN IF m_buckets[l.m] = NoArray
          THEN Step(t, "fault", l)
          ELSE Step(t, "insert_lock",
                    [l EXCEPT !.bucket_index = bucket_index,
                              !.bucket = BucketOf(m_buckets[l.m], bucket_index)])
    /\ UNCHANGED <<heapvars, ghostvars, mutex, top, m_buckets>>

\* Bucket::insert and Bucket::insert_or_assign: lock_guard lck(m_mutex); find
\* starts at begin()
InsertLock(t) ==
    /\ pc[t] = "insert_lock"
    /\ LET l == loc[t]
       IN /\ Acquirable(mutex[l.bucket], t)
          /\ mutex' = [mutex EXCEPT ![l.bucket] = Acquire(@, t)]
          /\ Step(t, "insert_find", [l EXCEPT !.node = B_begin(Heap, l.bucket)])
    /\ UNCHANGED <<heapvars, ghostvars, top, m_buckets>>

\* Bucket::find, one node at a time; a key that is found ends the insert,
\* and is the node that insert_or_assign writes. The key and the link read
\* from a deleted node are anything.
InsertFind(t) ==
    /\ pc[t] = "insert_find"
    /\ LET l == loc[t]
           found == /\ Step(t, IF l.op = "insert_or_assign"
                               THEN "insert_store" ELSE "insert_return",
                            [l EXCEPT !.result = l.node, !.second = FALSE])
                    /\ mutex' = [mutex EXCEPT ![l.bucket] = Release(@)]
       IN IF l.node = B_end(l.bucket)
          THEN /\ Step(t, "insert_link", [l EXCEPT !.result = l.node])
               /\ UNCHANGED mutex
          ELSE IF l.node \notin live
          THEN \/ found
               \/ /\ \E next \in Garbage \cup {NULL} :
                       IF next = NULL THEN Step(t, "fault", l)
                       ELSE Step(t, pc[t], [l EXCEPT !.node = next])
                  /\ UNCHANGED mutex
          ELSE IF KeyEqual(nodes[l.node].m_value[1], l.key)
          THEN found
          ELSE /\ Step(t, pc[t], [l EXCEPT !.node = nodes[l.node].m_next])
               /\ UNCHANGED mutex
    /\ UNCHANGED <<heapvars, ghostvars, top, m_buckets>>

\* result = new Node, the four link writes, ++m_size
InsertLink(t) ==
    /\ pc[t] = "insert_link"
    /\ CanAlloc(Heap)
    /\ LET l == loc[t]
       IN /\ SetHeap(B_link(Heap, l.bucket))
          /\ Step(t, "insert_unlock", [l EXCEPT !.result = Alloc(Heap)])
    /\ UNCHANGED <<ghostvars, mutex, top, m_buckets>>

\* the lock_guard's scope ends
InsertUnlock(t) ==
    /\ pc[t] = "insert_unlock"
    /\ mutex' = [mutex EXCEPT ![loc[t].bucket] = Release(@)]
    /\ Step(t, "insert_store", loc[t])
    /\ UNCHANGED <<heapvars, ghostvars, top, m_buckets>>

\* What a write through a pointer to a deleted node does: it is lost, or the
\* thread stops
Dangling == {"lost", "fault"}

\* result->m_value.store(value), after the lock is released
InsertStore(t) ==
    /\ pc[t] = "insert_store"
    /\ LET l == loc[t]
       IN IF l.result \in live
          THEN /\ SetHeap(Store(Heap, l.result, make_pair(l.key, l.val)))
               /\ Step(t, "insert_return", [l EXCEPT !.second = TRUE])
          ELSE /\ \E ub \in Dangling :
                    Step(t, IF ub = "lost" THEN "insert_return" ELSE "fault",
                         [l EXCEPT !.second = TRUE])
               /\ UNCHANGED heapvars
    /\ UNCHANGED <<ghostvars, mutex, top, m_buckets>>

\* HashMap::insert returns make_pair(iterator(m_buckets, bucket_index,
\* result.first), result.second)
InsertReturn(t) ==
    /\ pc[t] = "insert_return"
    /\ LET l == loc[t]
       IN IF m_buckets[l.m] = NoArray
          THEN Step(t, "fault", l)
          ELSE Step(t, IF l.op = "index" THEN "index_unlock" ELSE "done",
                    [l EXCEPT !.first = Iterator(m_buckets[l.m], l.bucket_index,
                                                 l.result, NULL)])
    /\ UNCHANGED <<heapvars, ghostvars, mutex, top, m_buckets>>

InsertStep(t) ==
    \/ InsertCall(t)
    \/ InsertLock(t)
    \/ InsertFind(t)
    \/ InsertLink(t)
    \/ InsertUnlock(t)
    \/ InsertStore(t)
    \/ InsertReturn(t)

\* ------------------------------------- inserts into different buckets
\* One thread per bucket of map "a"; thread t inserts a key of bucket t - 1.
\* The map starts empty or with one other entry.
NewHeap ==
    [nodes |-> [n \in NodeIds |->
                  IF n \in SentinelIds
                  THEN [m_prev |-> n, m_next |-> n, m_value |-> DefaultPair]
                  ELSE NewNode],
     live |-> SentinelIds,
     m_size |-> [b \in Buckets |-> 0]]

InsThreads == 1 .. BUCKET_COUNT

InitIns ==
    /\ \E ks \in [InsThreads -> Keys], vs \in [InsThreads -> Vals],
          seed \in SUBSET Keys, sv \in Vals :
         /\ \A t \in InsThreads : BucketIndex(ks[t]) = t - 1
         /\ Cardinality(seed) <= 1
         /\ \A t \in InsThreads : ks[t] \notin seed
         /\ loc = [t \in InsThreads |-> Locals("insert", MapA, MapA, ks[t], vs[t])]
         /\ contents = [k \in Keys |-> IF k \in seed THEN sv ELSE Absent]
         /\ LET h == IF seed = {} THEN NewHeap
                     ELSE HM_insert(NewHeap, MapA, CHOOSE k \in seed : TRUE, sv).h
            IN /\ nodes = h.nodes
               /\ live = h.live
               /\ m_size = h.m_size
               /\ size0 = HM_size(h, MapA)
    /\ pc = [t \in InsThreads |-> "insert"]
    /\ mutex = [b \in Buckets |-> Unlocked]
    /\ top = [m \in Maps |-> Unlocked]
    /\ m_buckets = [m \in Maps |-> m]
    /\ it = NoIt
    /\ ret = Ret("init", 0, 0, FALSE, 0)
    /\ mode = "none"
    /\ walk = <<>>

NextIns == \E t \in InsThreads : InsertStep(t)

SpecIns == InitIns /\ [][NextIns]_vars

\* ----------------------------------------- calls on one key, and on one bucket
\* HashMap::find and HashMap::erase(key): bucket_index, and the bucket
\* m_buckets[bucket_index], whose find is called
FindCall(t) ==
    /\ pc[t] \in {"find", "erase"}
    /\ LET l == loc[t]
           bucket_index == BucketIndex(l.key)
       IN IF m_buckets[l.m] = NoArray
          THEN Step(t, "fault", l)
          ELSE Step(t, "find_lock",
                    [l EXCEPT !.bucket_index = bucket_index,
                              !.bucket = BucketOf(m_buckets[l.m], bucket_index)])
    /\ UNCHANGED <<heapvars, ghostvars, mutex, top, m_buckets>>

\* Bucket::find: lock_guard lck(m_mutex); node = begin()
FindLock(t) ==
    /\ pc[t] = "find_lock"
    /\ LET l == loc[t]
       IN /\ Acquirable(mutex[l.bucket], t)
          /\ mutex' = [mutex EXCEPT ![l.bucket] = Acquire(@, t)]
          /\ Step(t, "find_scan", [l EXCEPT !.node = B_begin(Heap, l.bucket)])
    /\ UNCHANGED <<heapvars, ghostvars, top, m_buckets>>

\* Bucket::find, one node at a time; its return releases the lock. The caller
\* goes on: operator[] inserts after a miss, erase(key) calls erase(node).
FindScan(t) ==
    /\ pc[t] = "find_scan"
    /\ LET l == loc[t]
           after == CASE l.op = "index" ->
                           IF l.node = B_end(l.bucket) THEN "insert" ELSE "index_unlock"
                      [] l.op = "erase" -> "erase_node"
                      [] OTHER -> "done"
           return == /\ Step(t, after,
                             [l EXCEPT !.result = l.node,
                                       !.first = Iterator(m_buckets[l.m], l.bucket_index,
                                                          l.node, NULL)])
                     /\ mutex' = [mutex EXCEPT ![l.bucket] = Release(@)]
       IN IF l.node = B_end(l.bucket)
          THEN return
          ELSE IF l.node \notin live
          THEN \/ return
               \/ /\ \E next \in Garbage \cup {NULL} :
                       IF next = NULL THEN Step(t, "fault", l)
                       ELSE Step(t, pc[t], [l EXCEPT !.node = next])
                  /\ UNCHANGED mutex
          ELSE IF KeyEqual(nodes[l.node].m_value[1], l.key)
          THEN return
          ELSE /\ Step(t, pc[t], [l EXCEPT !.node = nodes[l.node].m_next])
               /\ UNCHANGED mutex
    /\ UNCHANGED <<heapvars, ghostvars, top, m_buckets>>

\* HashMap::operator[]: lock_guard lck(m_mutex); iter = find(key)
IndexLock(t) ==
    /\ pc[t] = "index"
    /\ LET l == loc[t]
           bucket_index == BucketIndex(l.key)
       IN /\ Acquirable(top[l.m], t)
          /\ top' = [top EXCEPT ![l.m] = Acquire(@, t)]
          /\ IF m_buckets[l.m] = NoArray
             THEN Step(t, "fault", l)
             ELSE Step(t, "find_lock",
                       [l EXCEPT !.bucket_index = bucket_index,
                                 !.bucket = BucketOf(m_buckets[l.m], bucket_index)])
    /\ UNCHANGED <<heapvars, ghostvars, mutex, m_buckets>>

\* return *iter: the lock_guard's scope ends
IndexUnlock(t) ==
    /\ pc[t] = "index_unlock"
    /\ top' = [top EXCEPT ![loc[t].m] = Release(@)]
    /\ Step(t, "done", loc[t])
    /\ UNCHANGED <<heapvars, ghostvars, mutex, m_buckets>>

\* Two threads call insert, insert_or_assign or operator[] with one key that
\* the map does not hold. The map starts empty or with one other entry.
SameThreads == {1, 2}

InitSame ==
    /\ \E k \in Keys, ops \in [SameThreads -> {"insert", "insert_or_assign", "index"}],
          vs \in [SameThreads -> Vals], seed \in SUBSET Keys, sv \in Vals :
         /\ k \notin seed
         /\ Cardinality(seed) <= 1
         /\ seed = {} => sv = DefaultVal
         /\ \A t \in SameThreads : ops[t] = "index" => vs[t] = DefaultVal
         /\ loc = [t \in SameThreads |-> Locals(ops[t], MapA, MapA, k, vs[t])]
         /\ pc = [t \in SameThreads |-> ops[t]]
         /\ contents = [x \in Keys |-> IF x \in seed THEN sv ELSE Absent]
         /\ LET h == IF seed = {} THEN NewHeap
                     ELSE HM_insert(NewHeap, MapA, CHOOSE x \in seed : TRUE, sv).h
            IN /\ nodes = h.nodes
               /\ live = h.live
               /\ m_size = h.m_size
               /\ size0 = HM_size(h, MapA)
    /\ mutex = [b \in Buckets |-> Unlocked]
    /\ top = [m \in Maps |-> Unlocked]
    /\ m_buckets = [m \in Maps |-> m]
    /\ it = NoIt
    /\ ret = Ret("init", 0, 0, FALSE, 0)
    /\ mode = "none"
    /\ walk = <<>>

SameStep(t) ==
    \/ InsertStep(t)
    \/ FindLock(t)
    \/ FindScan(t)
    \/ IndexLock(t)
    \/ IndexUnlock(t)

NextSame == \E t \in SameThreads : SameStep(t)

SpecSame == InitSame /\ [][NextSame]_vars

\* One thread calls insert and another find, on any keys. The map starts
\* empty or with one entry.
Inserter == 1
Finder == 2
ReadThreads == {Inserter, Finder}

InitRead ==
    /\ \E k, k2 \in Keys, v, sv \in Vals, seed \in SUBSET Keys :
         /\ Cardinality(seed) <= 1
         /\ seed = {} => sv = DefaultVal
         /\ loc = [t \in ReadThreads |->
                     IF t = Inserter THEN Locals("insert", MapA, MapA, k, v)
                     ELSE Locals("find", MapA, MapA, k2, DefaultVal)]
         /\ contents = [x \in Keys |-> IF x \in seed THEN sv ELSE Absent]
         /\ LET h == IF seed = {} THEN NewHeap
                     ELSE HM_insert(NewHeap, MapA, CHOOSE x \in seed : TRUE, sv).h
            IN /\ nodes = h.nodes
               /\ live = h.live
               /\ m_size = h.m_size
               /\ size0 = HM_size(h, MapA)
    /\ pc = [t \in ReadThreads |-> IF t = Inserter THEN "insert" ELSE "find"]
    /\ mutex = [b \in Buckets |-> Unlocked]
    /\ top = [m \in Maps |-> Unlocked]
    /\ m_buckets = [m \in Maps |-> m]
    /\ it = NoIt
    /\ ret = Ret("init", 0, 0, FALSE, 0)
    /\ mode = "none"
    /\ walk = <<>>

ReadStep(t) ==
    \/ InsertStep(t)
    \/ FindCall(t)
    \/ FindLock(t)
    \/ FindScan(t)

NextRead == \E t \in ReadThreads : ReadStep(t)

SpecRead == InitRead /\ [][NextRead]_vars

\* ------------------------------------------------ assignment between maps
\* HashMap::size: lock_guard lck(m_mutex)
SizeLock(t) ==
    /\ pc[t] = "size"
    /\ LET l == loc[t]
       IN /\ Acquirable(top[l.m], t)
          /\ top' = [top EXCEPT ![l.m] = Acquire(@, t)]
          /\ Step(t, "size_loop", [l EXCEPT !.i = 0, !.s = 0])
    /\ UNCHANGED <<heapvars, ghostvars, mutex, m_buckets>>

\* s += m_buckets[i].size(), and the return after the last bucket
SizeLoop(t) ==
    /\ pc[t] = "size_loop"
    /\ LET l == loc[t]
       IN IF l.i = BUCKET_COUNT
          THEN /\ top' = [top EXCEPT ![l.m] = Release(@)]
               /\ Step(t, "done", l)
          ELSE IF m_buckets[l.m] = NoArray
          THEN /\ Step(t, "fault", l)
               /\ UNCHANGED top
          ELSE /\ Step(t, pc[t],
                       [l EXCEPT !.s = @ + B_size(Heap, BucketOf(m_buckets[l.m], l.i)),
                                 !.i = @ + 1])
               /\ UNCHANGED top
    /\ UNCHANGED <<heapvars, ghostvars, mutex, m_buckets>>

\* HashMap::clear: lock_guard lck(m_mutex); if (m_buckets != nullptr)
ClearLock(t) ==
    /\ pc[t] = "clear"
    /\ LET l == loc[t]
       IN /\ Acquirable(top[l.m], t)
          /\ top' = [top EXCEPT ![l.m] = Acquire(@, t)]
          /\ Step(t, IF m_buckets[l.m] # NoArray THEN "clear_loop" ELSE "clear_unlock",
                  [l EXCEPT !.i = 0])
    /\ UNCHANGED <<heapvars, ghostvars, mutex, m_buckets>>

\* m_buckets[i].clear(): node = begin(), read without the bucket's lock
ClearLoop(t) ==
    /\ pc[t] = "clear_loop"
    /\ LET l == loc[t]
           bucket == BucketOf(m_buckets[l.m], l.i)
       IN IF l.i = BUCKET_COUNT
          THEN Step(t, "clear_unlock", l)
          ELSE IF B_begin(Heap, bucket) = B_end(bucket)
          THEN Step(t, pc[t], [l EXCEPT !.i = @ + 1])
          ELSE Step(t, "clear_erase",
                    [l EXCEPT !.bucket = bucket, !.node = B_begin(Heap, bucket)])
    /\ UNCHANGED <<heapvars, ghostvars, mutex, top, m_buckets>>

\* Bucket::erase(node) on a node that is already deleted: the two link
\* writes go through the pointers prev and next read from the deleted node (a
\* write into a deleted node is lost), and --m_size. m_size is a size_t: a
\* value n below 0 stands for 2^64 + n.
B_erase_deleted(h, b, prev, next) ==
    LET n1 == IF next \in h.live
              THEN [h.nodes EXCEPT ![next].m_prev = prev] ELSE h.nodes
        n2 == IF prev \in h.live
              THEN [n1 EXCEPT ![prev].m_next = next] ELSE n1
    IN [nodes |-> n2,
        live |-> h.live,
        m_size |-> [h.m_size EXCEPT ![b] = @ - 1]]

\* The erase calls of one call that are followed to their return
MaxDeletes == MaxNodes

\* Bucket::erase(node), node # m_end: the lock is taken, the node unlinked
\* and deleted, --m_size, and the lock released. On a deleted node the second
\* delete stops the thread, or returns after the writes of B_erase_deleted.
EraseNode(t, after) ==
    LET l == loc[t]
        done == [l EXCEPT !.deleted = Append(@, l.node)]
    IN /\ Acquirable(mutex[l.bucket], t)
       /\ IF l.node \in live
          THEN /\ SetHeap(B_erase_node(Heap, l.bucket, l.node))
               /\ Step(t, after, done)
          ELSE \/ /\ Step(t, "fault", l)
                  /\ UNCHANGED heapvars
               \/ /\ Len(l.deleted) < MaxDeletes
                  /\ \E prev, next \in Garbage :
                       /\ SetHeap(B_erase_deleted(Heap, l.bucket, prev, next))
                       /\ Step(t, after, done)

ClearErase(t) ==
    /\ pc[t] = "clear_erase"
    /\ EraseNode(t, "clear_loop")
    /\ UNCHANGED <<ghostvars, mutex, top, m_buckets>>

\* clear() returns to its caller: the client, or operator=
ClearUnlock(t) ==
    /\ pc[t] = "clear_unlock"
    /\ LET l == loc[t]
       IN /\ top' = [top EXCEPT ![l.m] = Release(@)]
          /\ Step(t,
                  CASE l.op = "copy" -> "copy_loop"
                    [] l.op = "move" -> "move"
                    [] OTHER -> "done",
                  [l EXCEPT !.i = 0])
    /\ UNCHANGED <<heapvars, ghostvars, mutex, m_buckets>>

\* HashMap::operator=, copy and move: std::lock(lck_this, lck_that) returns
\* with both mutexes locked and waits holding neither; then clear()
AssignLock(t) ==
    /\ pc[t] = "assign"
    /\ LET l == loc[t]
       IN /\ l.that # l.m
          /\ Acquirable(top[l.m], t)
          /\ Acquirable(top[l.that], t)
          /\ top' = [top EXCEPT ![l.m] = Acquire(@, t), ![l.that] = Acquire(@, t)]
          /\ Step(t, "clear", l)
    /\ UNCHANGED <<heapvars, ghostvars, mutex, m_buckets>>

\* The while loop of Bucket::operator= without new_node->m_value.store
RECURSIVE CopyFrom_blank(_, _, _, _)
CopyFrom_blank(h, b, that, node) ==
    IF node = B_end(that) THEN h
    ELSE LET new_node == Alloc(h)
             h1 == [h EXCEPT !.nodes[new_node] = NewNode, !.live = @ \cup {new_node}]
             h3 == [h1 EXCEPT !.nodes = LinkTail(@, b, new_node)]
         IN CopyFrom_blank(h3, b, that, h.nodes[node].m_next)

\* The while loop of Bucket::operator=: a new node per node of that
RECURSIVE CopyFrom(_, _, _, _)
CopyFrom(h, b, that, node) ==
    IF node = B_end(that) THEN h
    ELSE LET new_node == Alloc(h)
             h1 == [h EXCEPT !.nodes[new_node] = NewNode, !.live = @ \cup {new_node}]
             h2 == Store(h1, new_node, h.nodes[node].m_value)
             h3 == [h2 EXCEPT !.nodes = LinkTail(@, b, new_node)]
         IN CopyFrom(h3, b, that, h.nodes[node].m_next)

\* Bucket::operator= (const Bucket&), between its std::lock and its return
B_assign(h, b, that) ==
    IF that = b THEN h
    ELSE LET h1 == CopyFrom(B_clear(h, b), b, that, B_begin(h, that))
         IN [h1 EXCEPT !.m_size[b] = h1.m_size[that]]

\* std::copy(that.m_buckets, that.m_buckets + BUCKET_COUNT, m_buckets), one
\* bucket at a time: Bucket::operator= takes both buckets' locks with std::lock
CopyBucket(t) ==
    /\ pc[t] = "copy_loop"
    /\ LET l == loc[t]
           b == BucketOf(m_buckets[l.m], l.i)
           that == BucketOf(m_buckets[l.that], l.i)
       IN IF l.i = BUCKET_COUNT
          THEN /\ Step(t, "assign_unlock", l)
               /\ UNCHANGED heapvars
          ELSE IF m_buckets[l.m] = NoArray \/ m_buckets[l.that] = NoArray
          THEN /\ Step(t, "fault", l)
               /\ UNCHANGED heapvars
          ELSE /\ Acquirable(mutex[b], t)
               /\ Acquirable(mutex[that], t)
               /\ Cardinality(DataIds \ live) + m_size[b] >= m_size[that]
               /\ SetHeap(B_assign(Heap, b, that))
               /\ Step(t, pc[t], [l EXCEPT !.i = @ + 1])
    /\ UNCHANGED <<ghostvars, mutex, top, m_buckets>>

\* m_buckets = that.m_buckets; that.m_buckets = nullptr
MoveBuckets(t) ==
    /\ pc[t] = "move"
    /\ LET l == loc[t]
       IN m_buckets' = [m_buckets EXCEPT ![l.m] = m_buckets[l.that],
                                         ![l.that] = NoArray]
    /\ Step(t, "assign_unlock", loc[t])
    /\ UNCHANGED <<heapvars, ghostvars, mutex, top>>

\* return *this: lck_that and lck_this go out of scope
AssignUnlock(t) ==
    /\ pc[t] = "assign_unlock"
    /\ LET l == loc[t]
       IN top' = [top EXCEPT ![l.m] = Release(@), ![l.that] = Release(@)]
    /\ Step(t, "done", loc[t])
    /\ UNCHANGED <<heapvars, ghostvars, mutex, m_buckets>>

ThreadStep(t) ==
    \/ InsertStep(t)
    \/ SizeLock(t)
    \/ SizeLoop(t)
    \/ ClearLock(t)
    \/ ClearLoop(t)
    \/ ClearErase(t)
    \/ ClearUnlock(t)
    \/ AssignLock(t)
    \/ CopyBucket(t)
    \/ MoveBuckets(t)
    \/ AssignUnlock(t)

\* Thread 1 runs a = b and thread 2 runs b = a, each a copy or a move
\* assignment; thread 3 runs one other call on a or b. Both maps start empty.
MapB == 1

Assigners == {1, 2}

AsgThreads == Assigners \cup {3}

InitAsg ==
    /\ InitHeap
    /\ \E k1, k2 \in {"copy", "move"}, op \in {"insert", "size", "clear"},
          m \in Maps, key \in Keys, val \in Vals :
         /\ op # "insert" => key = DefaultKey /\ val = DefaultVal
         /\ loc = [t \in AsgThreads |->
                     CASE t = 1 -> Locals(k1, MapA, MapB, DefaultKey, DefaultVal)
                       [] t = 2 -> Locals(k2, MapB, MapA, DefaultKey, DefaultVal)
                       [] OTHER -> Locals(op, m, m, key, val)]
         /\ pc = [t \in AsgThreads |-> IF t \in Assigners THEN "assign" ELSE op]
    /\ mutex = [b \in Buckets |-> Unlocked]
    /\ top = [m \in Maps |-> Unlocked]
    /\ m_buckets = [m \in Maps |-> m]
    /\ it = NoIt
    /\ ret = Ret("init", 0, 0, FALSE, 0)
    /\ contents = [k \in Keys |-> Absent]
    /\ mode = "none"
    /\ walk = <<>>
    /\ size0 = 0

NextAsg == \E t \in AsgThreads : ThreadStep(t)

\* Fair scheduling: a thread that can take a step is not passed over forever
SpecAsg == InitAsg /\ [][NextAsg]_vars /\ \A t \in AsgThreads : WF_vars(ThreadStep(t))

\* ------------------------------------------------- two threads on one bucket
\* Bucket::erase(const KeyT&): erase(find(key)); erase(node) returns at once
\* for m_end
BucketErase(t) ==
    /\ pc[t] = "erase_node"
    /\ IF loc[t].result = B_end(loc[t].bucket)
       THEN /\ Step(t, "done", loc[t])
            /\ UNCHANGED heapvars
       ELSE EraseNode(t, "done")
    /\ UNCHANGED <<ghostvars, mutex, top, m_buckets>>

\* Two threads call insert, insert_or_assign, erase(key) or clear with keys
\* of one bucket, which holds any of its keys at the start.
BktThreads == {1, 2}

KeysOf(i) == {k \in Keys : BucketIndex(k) = i}

RECURSIVE InsertKeys(_, _, _)
InsertKeys(h, a, ks) ==
    IF ks = {} THEN h
    ELSE LET k == CHOOSE x \in ks : \A y \in ks : x <= y
         IN InsertKeys(HM_insert(h, a, k, DefaultVal).h, a, ks \ {k})

InitBkt ==
    /\ \E i \in Indexes,
          ops \in [BktThreads -> {"insert", "insert_or_assign", "erase", "clear"}],
          ks \in [BktThreads -> Keys], seed \in SUBSET Keys :
         /\ seed \subseteq KeysOf(i)
         /\ \A t \in BktThreads : ks[t] \in KeysOf(i)
         /\ \A t \in BktThreads :
              ops[t] = "clear" => ks[t] = CHOOSE k \in KeysOf(i) : TRUE
         /\ Cardinality(seed) + Cardinality(BktThreads) <= MaxNodes + 1
         /\ loc = [t \in BktThreads |->
                     Locals(ops[t], MapA, MapA, ks[t], DefaultVal + 1)]
         /\ pc = [t \in BktThreads |-> ops[t]]
         /\ contents = [k \in Keys |-> IF k \in seed THEN DefaultVal ELSE Absent]
         /\ LET h == InsertKeys(NewHeap, MapA, seed)
            IN /\ nodes = h.nodes
               /\ live = h.live
               /\ m_size = h.m_size
               /\ size0 = HM_size(h, MapA)
    /\ mutex = [b \in Buckets |-> Unlocked]
    /\ top = [m \in Maps |-> Unlocked]
    /\ m_buckets = [m \in Maps |-> m]
    /\ it = NoIt
    /\ ret = Ret("init", 0, 0, FALSE, 0)
    /\ mode = "none"
    /\ walk = <<>>

BktStep(t) ==
    \/ InsertStep(t)
    \/ FindCall(t)
    \/ FindLock(t)
    \/ FindScan(t)
    \/ BucketErase(t)
    \/ ClearLock(t)
    \/ ClearLoop(t)
    \/ ClearErase(t)
    \/ ClearUnlock(t)

NextBkt == \E t \in BktThreads : BktStep(t)

SpecBkt == InitBkt /\ [][NextBkt]_vars

\* ------------------------------------------------ size() next to other calls
\* One thread calls size(). Another thread calls insert(k, v) and, after that
\* has returned, erase(k2); each of its two calls has an id of its own.
Sizer == 1
FirstCall == 2
SecondCall == 3
SizeThreads == {Sizer, FirstCall, SecondCall}

InitSize ==
    /\ \E k, k2 \in Keys, seed \in SUBSET Keys :
         /\ Cardinality(seed) < MaxNodes
         /\ loc = [t \in SizeThreads |->
                     CASE t = Sizer -> Locals("size", MapA, MapA, DefaultKey, DefaultVal)
                       [] t = FirstCall -> Locals("insert", MapA, MapA, k, DefaultVal + 1)
                       [] OTHER -> Locals("erase", MapA, MapA, k2, DefaultVal)]
         /\ contents = [x \in Keys |-> IF x \in seed THEN DefaultVal ELSE Absent]
         /\ LET h == InsertKeys(NewHeap, MapA, seed)
            IN /\ nodes = h.nodes
               /\ live = h.live
               /\ m_size = h.m_size
               /\ size0 = HM_size(h, MapA)
    /\ pc = [t \in SizeThreads |->
               CASE t = Sizer -> "size" [] t = FirstCall -> "insert" [] OTHER -> "erase"]
    /\ mutex = [b \in Buckets |-> Unlocked]
    /\ top = [m \in Maps |-> Unlocked]
    /\ m_buckets = [m \in Maps |-> m]
    /\ it = NoIt
    /\ ret = Ret("init", 0, 0, FALSE, 0)
    /\ mode = "none"
    /\ walk = <<>>

\* erase(k2), the statement after insert(k, v) in its thread
EraseAfter(t) ==
    /\ pc[FirstCall] = "done"
    /\ \/ FindCall(t)
       \/ FindLock(t)
       \/ FindScan(t)
       \/ BucketErase(t)

NextSize ==
    \/ SizeLock(Sizer)
    \/ SizeLoop(Sizer)
    \/ InsertStep(FirstCall)
    \/ EraseAfter(SecondCall)

SpecSize == InitSize /\ [][NextSize]_vars

\* ------------------------------------------ accessors of one node in threads
\* Reference::set: key = m_node->m_value.load().first
SetLoad(t) ==
    /\ pc[t] = "set"
    /\ Step(t, "set_store", [loc[t] EXCEPT !.key = R_get_pair(Heap, loc[t].node)[1]])
    /\ UNCHANGED <<heapvars, ghostvars, mutex, top, m_buckets>>

\* Reference::set: m_node->m_value.store(make_pair(key, value))
SetStore(t) ==
    /\ pc[t] = "set_store"
    /\ SetHeap(Store(Heap, loc[t].node, make_pair(loc[t].key, loc[t].val)))
    /\ Step(t, "done", loc[t])
    /\ UNCHANGED <<ghostvars, mutex, top, m_buckets>>

\* Reference::get_pair: m_node->m_value.load(), kept in key and val
GetPair(t) ==
    /\ pc[t] = "get_pair"
    /\ LET p == R_get_pair(Heap, loc[t].node)
       IN Step(t, "done", [loc[t] EXCEPT !.key = p[1], !.val = p[2]])
    /\ UNCHANGED <<heapvars, ghostvars, mutex, top, m_buckets>>

\* Reference::get: m_node->m_value.load().second, kept in val
Get(t) ==
    /\ pc[t] = "get"
    /\ Step(t, "done", [loc[t] EXCEPT !.val = R_get(Heap, loc[t].node)])
    /\ UNCHANGED <<heapvars, ghostvars, mutex, top, m_buckets>>

\* Two threads call set and two read, get_pair and get, through accessors of
\* one node whose insert has returned; ret is what the find that gave the
\* accessors saw.
Setters == {1, 2}
PairReader == 3
ValueReader == 4
AccThreads == Setters \cup {PairReader, ValueReader}

InitAcc ==
    /\ \E k \in Keys, vs \in [Setters -> Vals], seed \in SUBSET Keys, sv \in Vals :
         /\ k \in seed
         /\ Cardinality(seed) <= 2
         /\ LET h == [InsertKeys(NewHeap, MapA, seed) EXCEPT
                         !.nodes = [n \in NodeIds |->
                                      IF n \in DataIds /\ @[n].m_next # NULL
                                      THEN [@[n] EXCEPT !.m_value[2] = sv]
                                      ELSE @[n]]]
                node == HM_find(h, MapA, k).m_ref
            IN /\ nodes = h.nodes
               /\ live = h.live
               /\ m_size = h.m_size
               /\ size0 = HM_size(h, MapA)
               /\ loc = [t \in AccThreads |->
                           [Locals(CASE t \in Setters -> "set"
                                     [] t = PairReader -> "get_pair"
                                     [] OTHER -> "get",
                                   MapA, MapA, DefaultKey,
                                   IF t \in Setters THEN vs[t] ELSE DefaultVal)
                            EXCEPT !.node = node]]
         /\ contents = [x \in Keys |-> IF x \in seed THEN sv ELSE Absent]
         /\ ret = Ret("find", k, sv, TRUE, 0)
    /\ pc = [t \in AccThreads |->
               CASE t \in Setters -> "set"
                 [] t = PairReader -> "get_pair"
                 [] OTHER -> "get"]
    /\ mutex = [b \in Buckets |-> Unlocked]
    /\ top = [m \in Maps |-> Unlocked]
    /\ m_buckets = [m \in Maps |-> m]
    /\ it = NoIt
    /\ mode = "none"
    /\ walk = <<>>

AccStep(t) ==
    \/ SetLoad(t)
    \/ SetStore(t)
    \/ GetPair(t)
    \/ Get(t)

NextAcc == \E t \in AccThreads : AccStep(t)

SpecAcc == InitAcc /\ [][NextAcc]_vars

\* ------------------------------------------------- two maps, one client
\* One client constructs, copies, assigns and calls two maps, a and b, each
\* call running to its return. m_buckets has an entry for every map that is
\* constructed. The client calls a map that owns a bucket array.
idlevars == <<it, contents, mode, walk, size0, pc, loc, mutex, top>>

\* new Bucket[BUCKET_COUNT]: every Bucket() allocates its sentinel
NewArray(h, a) ==
    LET ends == {B_end(BucketOf(a, i)) : i \in Indexes}
    IN [nodes |-> [n \in NodeIds |->
                     IF n \in ends
                     THEN [m_prev |-> n, m_next |-> n, m_value |-> DefaultPair]
                     ELSE h.nodes[n]],
        live |-> h.live \cup ends,
        m_size |-> [b \in Buckets |->
                      IF b \in {BucketOf(a, i) : i \in Indexes} THEN 0 ELSE h.m_size[b]]]

\* std::copy(that.m_buckets, that.m_buckets + BUCKET_COUNT, m_buckets)
RECURSIVE CopyBuckets(_, _, _, _)
CopyBuckets(h, a, that, i) ==
    IF i = BUCKET_COUNT THEN h
    ELSE CopyBuckets(B_assign(h, BucketOf(a, i), BucketOf(that, i)), a, that, i + 1)

\* HashMap::HashMap(const HashMap&)
HM_copy_construct(h, a, that) == CopyBuckets(NewArray(h, a), a, that, 0)

\* HashMap::operator= (const HashMap&), for &that != this
HM_copy_assign(h, a, that) == CopyBuckets(HM_clear(h, a), a, that, 0)

\* What the last call was: a construction, an assignment, a destruction, or
\* a call ("call") of insert, insert_or_assign, erase, clear or set on map m
LRet(op, m, that) == [op |-> op, m |-> m, that |-> that]

\* The bucket array that new Bucket[BUCKET_COUNT] returns: one no map owns
FreeArray == CHOOSE a \in Arrays \ {m_buckets[x] : x \in DOMAIN m_buckets} :
               \A o \in Arrays \ {m_buckets[x] : x \in DOMAIN m_buckets} : a <= o

\* The maps that are constructed and own a bucket array
Usable == {m \in DOMAIN m_buckets : m_buckets[m] # NoArray}

\* new Node succeeds for n more nodes
CanAllocN(h, n) == Cardinality(DataIds \ h.live) >= n

InitLife ==
    /\ nodes = NewArray(NewHeap, MapA).nodes
    /\ live = {B_end(BucketOf(MapA, i)) : i \in Indexes}
    /\ m_size = [b \in Buckets |-> 0]
    /\ m_buckets = [m \in {MapA} |-> MapA]
    /\ ret = LRet("init", MapA, MapA)
    /\ it = NoIt
    /\ contents = [k \in Keys |-> Absent]
    /\ mode = "none"
    /\ walk = <<>>
    /\ size0 = 0
    /\ pc = <<>>
    /\ loc = <<>>
    /\ mutex = [b \in Buckets |-> Unlocked]
    /\ top = [m \in Maps |-> Unlocked]

\* m.insert(k, v)
L_Insert(m, k, v) ==
    /\ m \in Usable
    /\ CanAllocN(Heap, 1)
    /\ SetHeap(HM_insert(Heap, m_buckets[m], k, v).h)
    /\ ret' = LRet("call", m, m)
    /\ UNCHANGED <<idlevars, m_buckets>>

\* m.insert_or_assign(k, v)
L_InsertOrAssign(m, k, v) ==
    /\ m \in Usable
    /\ CanAllocN(Heap, 1)
    /\ SetHeap(HM_insert_or_assign(Heap, m_buckets[m], k, v).h)
    /\ ret' = LRet("call", m, m)
    /\ UNCHANGED <<idlevars, m_buckets>>

\* m.erase(k)
L_Erase(m, k) ==
    /\ m \in Usable
    /\ SetHeap(HM_erase(Heap, m_buckets[m], k))
    /\ ret' = LRet("call", m, m)
    /\ UNCHANGED <<idlevars, m_buckets>>

\* m.clear()
L_Clear(m) ==
    /\ m \in DOMAIN m_buckets
    /\ SetHeap(IF m_buckets[m] # NoArray THEN HM_clear(Heap, m_buckets[m]) ELSE Heap)
    /\ ret' = LRet("call", m, m)
    /\ UNCHANGED <<idlevars, m_buckets>>

\* (*m.find(k)).set(v), for a key that find finds
L_Set(m, k, v) ==
    /\ m \in Usable
    /\ LET f == HM_find(Heap, m_buckets[m], k)
       IN /\ f.m_index < BUCKET_COUNT
          /\ SetHeap(R_set(Heap, f.m_ref, v))
    /\ ret' = LRet("call", m, m)
    /\ UNCHANGED <<idlevars, m_buckets>>

\* HashMap m(that): map m is constructed as a copy
L_CopyConstruct(m, that) ==
    /\ m \notin DOMAIN m_buckets
    /\ that \in Usable
    /\ CanAllocN(Heap, HM_size(Heap, m_buckets[that]))
    /\ SetHeap(HM_copy_construct(Heap, FreeArray, m_buckets[that]))
    /\ m_buckets' = [x \in DOMAIN m_buckets \cup {m} |->
                       IF x = m THEN FreeArray ELSE m_buckets[x]]
    /\ ret' = LRet("copy_construct", m, that)
    /\ UNCHANGED idlevars

\* m = that, copy assignment
L_CopyAssign(m, that) ==
    /\ m \in Usable
    /\ that \in Usable
    /\ m # that
    /\ CanAllocN(Heap, HM_size(Heap, m_buckets[that]) - HM_size(Heap, m_buckets[m]))
    /\ SetHeap(HM_copy_assign(Heap, m_buckets[m], m_buckets[that]))
    /\ ret' = LRet("copy_assign", m, that)
    /\ UNCHANGED <<idlevars, m_buckets>>

\* HashMap m(std::move(that)) without that.m_buckets = nullptr
L_MoveConstruct_shared(m, that) ==
    /\ m \notin DOMAIN m_buckets
    /\ that \in Usable
    /\ m_buckets' = [x \in DOMAIN m_buckets \cup {m} |->
                       IF x = m THEN m_buckets[that] ELSE m_buckets[x]]
    /\ ret' = LRet("move_construct", m, that)
    /\ UNCHANGED <<heapvars, idlevars>>

\* HashMap m(std::move(that)): m_buckets = that.m_buckets; that.m_buckets =
\* nullptr
L_MoveConstruct(m, that) ==
    /\ m \notin DOMAIN m_buckets
    /\ that \in Usable
    /\ m_buckets' = [x \in DOMAIN m_buckets \cup {m} |->
                       IF x = m THEN m_buckets[that]
                       ELSE IF x = that THEN NoArray ELSE m_buckets[x]]
    /\ ret' = LRet("move_construct", m, that)
    /\ UNCHANGED <<heapvars, idlevars>>

\* The pairs a range or an initializer list can hold
Sequences == UNION {[1 .. n -> Keys \X Vals] : n \in 0 .. MaxNodes}

\* The constructor's loop with insert_or_assign in the place of insert
RECURSIVE InsertAll_assign(_, _, _, _)
InsertAll_assign(h, a, seq, i) ==
    IF i > Len(seq) THEN h
    ELSE InsertAll_assign(HM_insert_or_assign(h, a, seq[i][1], seq[i][2]).h, a, seq, i + 1)

\* for (it = first; it != last; ++it) insert(make_pair(it->first, it->second))
RECURSIVE InsertAll(_, _, _, _)
InsertAll(h, a, seq, i) ==
    IF i > Len(seq) THEN h
    ELSE InsertAll(HM_insert(h, a, seq[i][1], seq[i][2]).h, a, seq, i + 1)

\* HashMap m(first, last) and HashMap m = {...}
HM_range_construct(h, a, seq) == InsertAll(NewArray(h, a), a, seq, 1)

\* HashMap::~HashMap: clear(); delete[] m_buckets. ~Bucket clears its list
\* and leaves its sentinel allocated.
L_Destroy(m) ==
    /\ m \in DOMAIN m_buckets
    /\ SetHeap(IF m_buckets[m] # NoArray THEN HM_clear(Heap, m_buckets[m]) ELSE Heap)
    /\ m_buckets' = [x \in DOMAIN m_buckets \ {m} |-> m_buckets[x]]
    /\ ret' = LRet("destroy", m, m)
    /\ UNCHANGED idlevars

NextLife ==
    \/ \E m \in Maps, k \in Keys, v \in Vals : L_Insert(m, k, v)
    \/ \E m \in Maps, k \in Keys, v \in Vals : L_InsertOrAssign(m, k, v)
    \/ \E m \in Maps, k \in Keys : L_Erase(m, k)
    \/ \E m \in Maps : L_Clear(m)
    \/ \E m \in Maps, k \in Keys, v \in Vals : L_Set(m, k, v)
    \/ \E m, that \in Maps : L_CopyConstruct(m, that)
    \/ \E m, that \in Maps : L_CopyAssign(m, that)
    \/ \E m, that \in Maps : L_MoveConstruct(m, that)
    \/ \E m \in Maps : L_Destroy(m)

SpecLife == InitLife /\ [][NextLife]_vars

\* --------------------------------------------------------- move assignment
\* HashMap a, b; then calls on the two maps, among them a = std::move(b) and
\* b = std::move(a). No map is destroyed.
InitMove ==
    /\ InitHeap
    /\ NoThreads
    /\ ret = LRet("init", MapA, MapA)
    /\ it = NoIt
    /\ contents = [k \in Keys |-> Absent]
    /\ mode = "none"
    /\ walk = <<>>
    /\ size0 = 0

\* m = std::move(that): nothing for &that == this; else clear(), m_buckets =
\* that.m_buckets, that.m_buckets = nullptr. The array m_buckets pointed to
\* is not passed to delete[].
L_MoveAssign(m, that) ==
    /\ m \in DOMAIN m_buckets
    /\ that \in DOMAIN m_buckets
    /\ IF that # m
       THEN /\ SetHeap(IF m_buckets[m] # NoArray THEN HM_clear(Heap, m_buckets[m]) ELSE Heap)
            /\ m_buckets' = [m_buckets EXCEPT ![m] = m_buckets[that], ![that] = NoArray]
       ELSE UNCHANGED <<heapvars, m_buckets>>
    /\ ret' = LRet("move_assign", m, that)
    /\ UNCHANGED idlevars

NextMove ==
    \/ \E m \in Maps, k \in Keys, v \in Vals : L_Insert(m, k, v)
    \/ \E m \in Maps, k \in Keys : L_Erase(m, k)
    \/ \E m, that \in Maps : L_MoveAssign(m, that)

SpecMove == InitMove /\ [][NextMove]_vars

\* ------------------------------------- a map built from a sequence of pairs
\* The client holds a sequence of pairs (walk) and constructs map a from it,
\* as an iterator range or as an initializer list.
InitRange ==
    /\ \E seq \in Sequences : walk = seq
    /\ nodes = NewHeap.nodes
    /\ live = {}
    /\ m_size = NewHeap.m_size
    /\ m_buckets = <<>>
    /\ ret = LRet("init", MapA, MapA)
    /\ it = NoIt
    /\ contents = [k \in Keys |-> Absent]
    /\ mode = "none"
    /\ size0 = 0
    /\ pc = <<>>
    /\ loc = <<>>
    /\ mutex = [b \in Buckets |-> Unlocked]
    /\ top = [m \in Maps |-> Unlocked]

\* HashMap a(first, last)
RangeConstruct ==
    /\ MapA \notin DOMAIN m_buckets
    /\ SetHeap(HM_range_construct(Heap, FreeArray, walk))
    /\ m_buckets' = [m \in {MapA} |-> FreeArray]
    /\ ret' = LRet("range_construct", MapA, MapA)
    /\ UNCHANGED idlevars

\* HashMap a = {...}: the same loop over the initializer list
ListConstruct ==
    /\ MapA \notin DOMAIN m_buckets
    /\ SetHeap(HM_range_construct(Heap, FreeArray, walk))
    /\ m_buckets' = [m \in {MapA} |-> FreeArray]
    /\ ret' = LRet("list_construct", MapA, MapA)
    /\ UNCHANGED idlevars

NextRange == RangeConstruct \/ ListConstruct

SpecRange == InitRange /\ [][NextRange]_vars

\* ------------------------------------------------- what the claims speak of
\* The nodes of bucket b in list order: m_next from the sentinel until the
\* sentinel comes back (at most fuel nodes).
RECURSIVE ChainFrom(_, _, _, _)
ChainFrom(h, b, node, fuel) ==
    IF node = B_end(b) \/ node = NULL \/ fuel = 0 THEN <<>>
    ELSE <<node>> \o ChainFrom(h, b, h.nodes[node].m_next, fuel - 1)

Chain(h, b) == ChainFrom(h, b, h.nodes[B_end(b)].m_next, MaxNodes + 1)

\* Walking m_next from the sentinel returns to the sentinel after exactly
\* m_size steps, over allocated nodes whose links agree in both directions.
WellFormed(h, b) ==
    LET c == Chain(h, b)
        at(i) == IF i = 0 \/ i = Len(c) + 1 THEN B_end(b) ELSE c[i]
    IN /\ Len(c) = h.m_size[b]
       /\ \A i \in 0 .. Len(c) :
            /\ at(i) \in h.live
            /\ h.nodes[at(i)].m_next = at(i + 1)
            /\ h.nodes[at(i + 1)].m_prev = at(i)
       /\ \A i, j \in 1 .. Len(c) : i # j => c[i] # c[j]

\* The nodes of map a in traversal order: ascending bucket index, list order
RECURSIVE OrderFrom(_, _, _)
OrderFrom(h, a, i) ==
    IF i = BUCKET_COUNT THEN <<>>
    ELSE Chain(h, BucketOf(a, i)) \o OrderFrom(h, a, i + 1)

Order(h, a) == OrderFrom(h, a, 0)

Range(seq) == {seq[i] : i \in 1 .. Len(seq)}

Present == {k \in Keys : contents[k] # Absent}

\* The logical contents as a set of (key, value) pairs
Pairs == {make_pair(k, contents[k]) : k \in Present}

\* The terminal iterator, whatever the read past the array yields
IsEnd(i) == \A oob \in OobVals : IterEq(i, HM_end(MapA, oob))

Without(seq, n) == SelectSeq(seq, LAMBDA x : x # n)

\* ------------------------------------------------------------------ claims
\* C1: insert(k, v) of a key k that is not present returns (cursor, true),
\* the cursor's entry reads (k, v), size() grows by exactly 1, a following
\* find(k) yields v, and every other entry is unchanged (the new node is
\* appended to its bucket's list, every other list is as it was).
C1_InsertAbsent ==
    [][LET k == ret'.key
           v == ret'.val
       IN (ret'.op = "insert" /\ contents[k] = Absent) =>
            /\ ret'.ok = TRUE
            /\ Deref(it')
            /\ R_get_pair(Heap', it'.m_ref) = make_pair(k, v)
            /\ HM_size(Heap', MapA) = HM_size(Heap, MapA) + 1
            /\ LET f == HM_find(Heap', MapA, k)
               IN Deref(f) /\ R_get(Heap', f.m_ref) = v
            /\ it'.m_ref \notin live
            /\ \A i \in Indexes :
                 Chain(Heap', BucketOf(MapA, i)) =
                    IF i = BucketIndex(k)
                    THEN Append(Chain(Heap, BucketOf(MapA, i)), it'.m_ref)
                    ELSE Chain(Heap, BucketOf(MapA, i))
            /\ \A n \in live : nodes'[n].m_value = nodes[n].m_value
    ]_vars

\* C1's case: an insert returned true in a map that held other entries
C1_Witness == ret.op = "insert" /\ ret.ok /\ HM_size(Heap, MapA) >= 2

\* C2: insert(k, v2) of a key k present with v1 returns (cursor, false), the
\* cursor's entry reads v1, size() is unchanged, the stored value stays v1
\* and no node is created (the heap is as it was).
C2_InsertPresent ==
    [][LET k == ret'.key
           v2 == ret'.val
       IN (ret'.op = "insert" /\ contents[k] # Absent) =>
            /\ ret'.ok = FALSE
            /\ Deref(it')
            /\ R_get_pair(Heap', it'.m_ref) = make_pair(k, contents[k])
            /\ HM_size(Heap', MapA) = HM_size(Heap, MapA)
            /\ LET f == HM_find(Heap', MapA, k)
               IN Deref(f) /\ R_get(Heap', f.m_ref) = contents[k]
            /\ Heap' = Heap
    ]_vars

\* C2's case: an insert returned false for a value other than the stored one
C2_Witness ==
    /\ ret.op = "insert"
    /\ ~ret.ok
    /\ contents[ret.key] # Absent
    /\ contents[ret.key] # ret.val

\* C3: insert_or_assign(k, v2) returns a cursor whose entry reads (k, v2);
\* with k present the stored value becomes v2, size() is unchanged and no
\* node is created; with k absent a new entry (k, v2) is appended to bucket
\* hash(k) mod bucket_count and size() grows by exactly 1.
C3_InsertOrAssign ==
    [][LET k == ret'.key
           v2 == ret'.val
       IN ret'.op = "insert_or_assign" =>
            /\ Deref(it')
            /\ R_get_pair(Heap', it'.m_ref) = make_pair(k, v2)
            /\ LET f == HM_find(Heap', MapA, k)
               IN Deref(f) /\ R_get(Heap', f.m_ref) = v2
            /\ contents[k] # Absent =>
                 /\ HM_size(Heap', MapA) = HM_size(Heap, MapA)
                 /\ live' = live
                 /\ \A i \in Indexes :
                      Chain(Heap', BucketOf(MapA, i)) = Chain(Heap, BucketOf(MapA, i))
            /\ contents[k] = Absent =>
                 /\ HM_size(Heap', MapA) = HM_size(Heap, MapA) + 1
                 /\ it'.m_ref \notin live
                 /\ it'.m_index = Hash(k) % BUCKET_COUNT
                 /\ \A i \in Indexes :
                      Chain(Heap', BucketOf(MapA, i)) =
                         IF i = Hash(k) % BUCKET_COUNT
                         THEN Append(Chain(Heap, BucketOf(MapA, i)), it'.m_ref)
                         ELSE Chain(Heap, BucketOf(MapA, i))
            /\ \A n \in live : n # it'.m_ref => nodes'[n].m_value = nodes[n].m_value
    ]_vars

\* C3's case: insert_or_assign has overwritten a stored value, in a bucket
\* that holds another entry
C3_Witness ==
    /\ ret.op = "insert_or_assign"
    /\ HM_size(Heap, MapA) >= 2
    /\ Deref(it)
    /\ nodes[it.m_ref].m_next # B_end(BucketOf(MapA, it.m_index))

\* C4: erase(k) of an absent k changes nothing; erase(k) of a present k
\* makes size() drop by exactly 1, makes a following find(k) the terminal
\* cursor, and leaves every other entry, its value and its place unchanged.
C4_EraseKey ==
    [][LET k == ret'.key
       IN ret'.op = "erase" =>
            /\ contents[k] = Absent => Heap' = Heap
            /\ contents[k] # Absent =>
                 LET f == HM_find(Heap, MapA, k)
                 IN /\ HM_size(Heap', MapA) = HM_size(Heap, MapA) - 1
                    /\ IsEnd(HM_find(Heap', MapA, k))
                    /\ live' = live \ {f.m_ref}
                    /\ \A i \in Indexes :
                         Chain(Heap', BucketOf(MapA, i)) =
                            Without(Chain(Heap, BucketOf(MapA, i)), f.m_ref)
                    /\ \A n \in live' : nodes'[n].m_value = nodes[n].m_value
    ]_vars

\* C4's case: a present key was erased from a map that keeps other entries
C4_Witness == ret.op = "erase" /\ ret.ok /\ HM_size(Heap, MapA) >= 2

\* C5: keys that hash to different buckets, inserted by different threads at
\* the same time, do not interfere. Each insert returns true; once all have
\* returned, size() is the number of distinct keys (those inserted and those
\* the map held before), every inserted key is found with its value at the
\* iterator its insert returned, and every bucket's list is well-formed (as is,
\* at any time, the list of a bucket that no thread has locked).
InsDone == \A t \in InsThreads : pc[t] = "done"

C5_DisjointInserts ==
    /\ \A t \in InsThreads : pc[t] \in {"insert_return", "done"} => loc[t].second
    /\ \A b \in Buckets : mutex[b].owner = 0 => WellFormed(Heap, b)
    /\ InsDone =>
         /\ HM_size(Heap, MapA)
              = Cardinality({loc[t].key : t \in InsThreads} \cup Present)
         /\ HM_size(Heap, MapA) = size0 + Cardinality(InsThreads)
         /\ \A t \in InsThreads :
              LET f == HM_find(Heap, MapA, loc[t].key)
              IN /\ ~IsEnd(f)
                 /\ f = loc[t].first
                 /\ R_get_pair(Heap, f.m_ref) = make_pair(loc[t].key, loc[t].val)
         /\ \A k \in Present :
              LET f == HM_find(Heap, MapA, k)
              IN ~IsEnd(f) /\ R_get_pair(Heap, f.m_ref) = make_pair(k, contents[k])
         /\ \A b \in Buckets : WellFormed(Heap, b)

\* Every thread has returned from its insert, and one of them walked past an
\* entry the map already held
C5_Witness ==
    /\ InsDone
    /\ size0 >= 1
    /\ \E t \in InsThreads :
         nodes[loc[t].result].m_prev # B_end(loc[t].bucket)

\* C6: copy assignment and move assignment between two maps never deadlock.
\* With one thread in a = b, another in b = a (each a copy or a move
\* assignment) and a third in an insert, size() or clear() on a or b, under
\* fair scheduling every call eventually returns.
C6_EveryCallReturns == <>(\A t \in AsgThreads : pc[t] = "done")

\* C7: size() equals the number of live keys (inserted and not erased
\* since), which equals the number of non-sentinel nodes on the buckets'
\* lists; every list is a circular list of m_size nodes.
C7_Size ==
    /\ HM_size(Heap, MapA) = Cardinality(Present)
    /\ HM_size(Heap, MapA) = Len(Order(Heap, MapA))
    /\ \A i \in Indexes : WellFormed(Heap, BucketOf(MapA, i))
    /\ live = SentinelIds \cup Range(Order(Heap, MapA))

\* C7's case: an erase through a cursor has left two entries or more
C7_Witness == ret.op = "erase_it" /\ HM_size(Heap, MapA) >= 2

\* C8: a walk from begin() with ++ reaches end() after exactly size()
\* steps, reads every live key exactly once, and the pairs it read are the
\* logical contents.
C8_Walk ==
    (mode = "begin" \/ mode = "walk") =>
        /\ it # NoIt
        /\ Len(walk) <= HM_size(Heap, MapA)
        /\ IsEnd(it) <=> Len(walk) = HM_size(Heap, MapA)
        /\ \A i, j \in 1 .. Len(walk) : i # j => walk[i][1] # walk[j][1]
        /\ Range(walk) \subseteq Pairs
        /\ IsEnd(it) => Range(walk) = Pairs

\* C8's case: a walk over three entries has reached end()
C8_Witness == mode = "walk" /\ IsEnd(it) /\ Len(walk) >= 3

\* The lowest bucket index that holds a live key
LowestIndex == CHOOSE i \in Indexes :
    /\ \E k \in Present : Hash(k) % BUCKET_COUNT = i
    /\ \A k \in Present : Hash(k) % BUCKET_COUNT >= i

\* C9: begin() == end() if and only if the map holds no entry (every bucket
\* is empty); otherwise begin() is at the first node of the lowest-indexed
\* non-empty bucket.
C9_BeginEnd ==
    \A o1, o2 \in OobVals :
        LET b == HM_begin(Heap, MapA, o1)
        IN /\ IterEq(b, HM_end(MapA, o2)) <=> Present = {}
           /\ Present = {} <=> \A i \in Indexes : Chain(Heap, BucketOf(MapA, i)) = <<>>
           /\ Present # {} =>
                /\ b.m_index = LowestIndex
                /\ b.m_ref = Chain(Heap, BucketOf(MapA, LowestIndex))[1]
                /\ nodes[b.m_ref].m_value[1] \in Present
                /\ nodes[b.m_ref].m_prev = B_end(BucketOf(MapA, LowestIndex))

\* C9's case: begin() was called on a map whose first bucket is empty and
\* that holds an entry
C9_Witness == ret.op = "begin" /\ Deref(it) /\ it.m_index > 0

\* The place of node n in a sequence of nodes (0: not in it)
PlaceOf(seq, n) == IF \E i \in 1 .. Len(seq) : seq[i] = n
                   THEN CHOOSE i \in 1 .. Len(seq) : seq[i] = n ELSE 0

\* The bucket index of the list that holds node n
IndexOfNode(h, n) == CHOOSE i \in Indexes : n \in Range(Chain(h, BucketOf(MapA, i)))

\* The erase loop: as many erased as size() dropped; the cursor is terminal
\* exactly when the map is empty
EraseLoopInv ==
    mode = "erase" =>
        /\ it # NoIt
        /\ Len(walk) + HM_size(Heap, MapA) = size0
        /\ IsEnd(it) <=> Len(walk) = size0
        /\ IsEnd(it) => /\ HM_empty(Heap, MapA)
                        /\ Present = {}
                        /\ live = SentinelIds
        /\ ~IsEnd(it) => it = HM_begin(Heap, MapA, NULL)

\* C10: erase(c) on a non-terminal cursor c removes exactly the entry at c
\* and returns c's successor in traversal order (or the terminal cursor),
\* which refers to an allocated node; the loop it = erase(it) from begin()
\* reaches end() after exactly the initial size() steps and leaves the map
\* empty.
C10_EraseCursor ==
    [][/\ ret'.op = "erase_it" =>
            LET o == Order(Heap, MapA)
                p == PlaceOf(o, it.m_ref)
                key == nodes[it.m_ref].m_value[1]
            IN /\ p > 0
               /\ HM_size(Heap', MapA) = HM_size(Heap, MapA) - 1
               /\ IsEnd(HM_find(Heap', MapA, key))
               /\ live' = live \ {it.m_ref}
               /\ Order(Heap', MapA) = Without(o, it.m_ref)
               /\ \A n \in live' : nodes'[n].m_value = nodes[n].m_value
               /\ p < Len(o) => /\ it'.m_ref = o[p + 1]
                                /\ it'.m_ref \in live'
                                /\ it'.m_index = IndexOfNode(Heap', o[p + 1])
               /\ p = Len(o) => IsEnd(it') /\ it'.m_index = BUCKET_COUNT
       /\ EraseLoopInv'
    ]_vars

\* C10's case: the erase loop has emptied a map of three entries
C10_Witness == mode = "erase" /\ IsEnd(it) /\ size0 >= 3 /\ Len(walk) = size0

\* C11: map[k] for a present k returns an accessor whose get() is the stored
\* value and leaves size() (and every node) unchanged; map[k] for an absent k
\* inserts (k, default value) and increases size() by exactly 1; and after
\* accessor.set(v) a following find(k) yields v.
C11_Index ==
    [][/\ ret'.op = "index" =>
            LET k == ret'.key
            IN /\ Deref(it')
               /\ it'.m_ref \in live'
               /\ R_get_pair(Heap', it'.m_ref)[1] = k
               /\ contents[k] # Absent =>
                    /\ R_get(Heap', it'.m_ref) = contents[k]
                    /\ HM_size(Heap', MapA) = HM_size(Heap, MapA)
                    /\ Heap' = Heap
               /\ contents[k] = Absent =>
                    /\ R_get(Heap', it'.m_ref) = DefaultVal
                    /\ HM_size(Heap', MapA) = HM_size(Heap, MapA) + 1
                    /\ it'.m_ref \notin live
                    /\ \A n \in live : nodes'[n].m_value = nodes[n].m_value
               /\ HM_find(Heap', MapA, k) = it'
       /\ ret'.op = "set" =>
            LET k == ret'.key
                f == HM_find(Heap', MapA, k)
            IN /\ R_get_pair(Heap, it.m_ref)[1] = k
               /\ ~IsEnd(f)
               /\ f.m_ref = it.m_ref
               /\ R_get_pair(Heap', f.m_ref) = make_pair(k, ret'.val)
               /\ HM_size(Heap', MapA) = HM_size(Heap, MapA)
               /\ \A n \in live \ {it.m_ref} : nodes'[n].m_value = nodes[n].m_value
      ]_vars

\* C11's case: map[k] has inserted the default value for an absent k into a
\* map that held other entries
C11_Witness ==
    /\ ret.op = "index"
    /\ HM_size(Heap, MapA) >= 2
    /\ Deref(it)
    /\ nodes[it.m_ref].m_next = B_end(BucketOf(MapA, it.m_index))
    /\ nodes[it.m_ref].m_prev # B_end(BucketOf(MapA, it.m_index))
    /\ contents[ret.key] = DefaultVal

\* The pairs of the map that owns bucket array a, in traversal order
Entries(h, a) ==
    LET o == Order(h, a)
    IN [i \in 1 .. Len(o) |-> h.nodes[o[i]].m_value]

\* The nodes of the map that owns bucket array a
NodesOf(h, a) == Range(Order(h, a))

C13_MoveConstruct ==
    [][/\ ret'.op = "move_construct" =>
            LET new == m_buckets'[ret'.m]
                old == m_buckets[ret'.that]
            IN /\ new = old
               /\ m_buckets'[ret'.that] = NoArray
               /\ Heap' = Heap
               /\ Order(Heap', new) = Order(Heap, old)
               /\ Entries(Heap', new) = Entries(Heap, old)
               /\ HM_size(Heap', new) = HM_size(Heap, old)
               /\ \A o \in DOMAIN m_buckets' \ {ret'.m} : m_buckets'[o] # new
       /\ ret'.op = "destroy" =>
            /\ m_buckets[ret'.m] = NoArray => Heap' = Heap
            /\ \A o \in Usable' :
                 /\ m_buckets'[o] = m_buckets[o]
                 /\ Order(Heap', m_buckets[o]) = Order(Heap, m_buckets[o])
                 /\ Entries(Heap', m_buckets[o]) = Entries(Heap, m_buckets[o])
                 /\ HM_size(Heap', m_buckets[o]) = HM_size(Heap, m_buckets[o])
                 /\ NodesOf(Heap', m_buckets[o]) \subseteq live'
                 /\ \A i \in Indexes : WellFormed(Heap', BucketOf(m_buckets[o], i))
      ]_vars

\* C13's case: map b was move-constructed from a, a has been destroyed, and
\* b holds two entries or more on a's bucket array
C13_Witness ==
    /\ ret.op = "destroy"
    /\ ret.m = MapA
    /\ DOMAIN m_buckets = {MapB}
    /\ m_buckets[MapB] = MapA
    /\ HM_size(Heap, m_buckets[MapB]) >= 2

\* The first pair of seq that carries key k
FirstWith(seq, k) ==
    seq[CHOOSE i \in 1 .. Len(seq) :
          seq[i][1] = k /\ \A j \in 1 .. (i - 1) : seq[j][1] # k]

\* C14: a map built from an ordered sequence of pairs (iterator range or
\* initializer list) holds, for every key of the sequence, the value of the
\* first pair that carries the key, holds no other key, and its size() is the
\* number of distinct keys of the sequence.
C14_FirstWins ==
    ret.op \in {"range_construct", "list_construct"} =>
        LET a == m_buckets[MapA]
            ks == {walk[i][1] : i \in 1 .. Len(walk)}
        IN /\ HM_size(Heap, a) = Cardinality(ks)
           /\ Len(Order(Heap, a)) = Cardinality(ks)
           /\ \A k \in Keys :
                LET f == HM_find(Heap, a, k)
                IN IF k \in ks
                   THEN /\ f.m_index < BUCKET_COUNT
                        /\ R_get_pair(Heap, f.m_ref) = FirstWith(walk, k)
                   ELSE f.m_index = BUCKET_COUNT
           /\ \A i \in Indexes : WellFormed(Heap, BucketOf(a, i))

\* C14's case: the map was built from a sequence in which a key comes twice
\* with different values, after another key
C14_Witness ==
    /\ ret.op = "range_construct"
    /\ HM_size(Heap, m_buckets[MapA]) >= 2
    /\ \E i, j \in 1 .. Len(walk) :
         i < j /\ walk[i][1] = walk[j][1] /\ walk[i][2] # walk[j][2]

\* C15: a clear() call with no concurrent operation returns and leaves the
\* map empty: size() == 0, empty() is true, begin() == end(), find(k) == end()
\* for every k, every bucket's sentinel points to itself in both directions,
\* and every node that was linked has been released exactly once.
C15_Clear ==
    [][ret'.op = "clear" =>
         LET deleted == HM_clear_deleted(Heap, MapA)
         IN /\ HM_size(Heap', MapA) = 0
            /\ HM_empty(Heap', MapA)
            /\ \A o1, o2 \in OobVals : IterEq(HM_begin(Heap', MapA, o1), HM_end(MapA, o2))
            /\ \A k \in Keys : IsEnd(HM_find(Heap', MapA, k))
            /\ \A i \in Indexes :
                 LET end == B_end(BucketOf(MapA, i))
                 IN /\ nodes'[end].m_next = end
                    /\ nodes'[end].m_prev = end
                    /\ m_size'[BucketOf(MapA, i)] = 0
            /\ Range(deleted) = NodesOf(Heap, MapA)
            /\ \A i, j \in 1 .. Len(deleted) : i # j => deleted[i] # deleted[j]
            /\ Len(deleted) = ret'.n
            /\ live' = live \ NodesOf(Heap, MapA)
            /\ live' = SentinelIds
       ]_vars

\* C15's case: clear() has emptied a map of three entries
C15_Witness == ret.op = "clear" /\ ret.n >= 3

\* C16: when two threads call insert, insert_or_assign or operator[] with
\* the same key k that the map does not hold, then after both calls return
\* exactly one node of the map holds k, in bucket hash(k) mod BUCKET_COUNT,
\* size() has grown by exactly 1, and at most one insert returned true.
C16_OneNodePerKey ==
    (\A t \in SameThreads : pc[t] = "done") =>
        LET k == loc[1].key
        IN /\ Cardinality({n \in NodesOf(Heap, MapA) : nodes[n].m_value[1] = k}) = 1
           /\ \A n \in NodesOf(Heap, MapA) :
                nodes[n].m_value[1] = k
                  => n \in Range(Chain(Heap, BucketOf(MapA, BucketIndex(k))))
           /\ HM_size(Heap, MapA) = size0 + 1
           /\ Cardinality({t \in SameThreads : loc[t].op = "insert" /\ loc[t].second}) <= 1

\* C17: when every call is an insert and the keys route to one bucket
\* (KeyT() among them), then after all calls return an insert(k, v) that
\* returned false holds a cursor to an entry whose key is k, and find locates
\* every key that was passed to an insert.
C17_InsertedKeysFound ==
    (/\ \A t \in BktThreads : loc[t].op = "insert"
     /\ \A t \in BktThreads : pc[t] = "done") =>
        \A t \in BktThreads :
            /\ ~loc[t].second => nodes[loc[t].first.m_ref].m_value[1] = loc[t].key
            /\ ~IsEnd(HM_find(Heap, MapA, loc[t].key))

\* C18: when two threads call erase(k) for one key k that the map holds, then
\* after both return size() is one less than before, no node of the map holds
\* k, and delete ran once in all: the second erase changed nothing.
C18_ErasedOnce ==
    (/\ \A t \in BktThreads : loc[t].op = "erase" /\ loc[t].key = loc[1].key
     /\ contents[loc[1].key] # Absent
     /\ \A t \in BktThreads : pc[t] = "done") =>
        /\ HM_size(Heap, MapA) = size0 - 1
        /\ \A n \in NodesOf(Heap, MapA) : nodes[n].m_value[1] # loc[1].key
        /\ Len(loc[1].deleted) + Len(loc[2].deleted) = 1

\* C19: in every state where no thread holds a bucket's lock, whatever
\* insert, insert_or_assign, erase(key) and clear calls the threads run on the
\* bucket's keys, its list is a circular doubly-linked list at the sentinel:
\* m_next from the sentinel leads back to the sentinel, n.m_next.m_prev = n and
\* n.m_prev.m_next = n for every node n on it, and no node on it is deleted.
C19_ListValid ==
    \A i \in Indexes :
        LET b == BucketOf(MapA, i)
            c == Chain(Heap, b)
            at(j) == IF j = 0 \/ j = Len(c) + 1 THEN B_end(b) ELSE c[j]
        IN mutex[b] = Unlocked =>
             \A j \in 0 .. Len(c) :
                 /\ at(j) \in live
                 /\ nodes[at(j)].m_next = at(j + 1)
                 /\ nodes[at(j + 1)].m_prev = at(j)

\* C20: when insert or insert_or_assign runs against erase(key) or clear() on
\* one bucket, every value store that follows the release of the bucket lock
\* writes a node that is allocated and linked in the bucket, never one that
\* another thread has unlinked and deleted.
C20_StoreToLinkedNode ==
    [][\A t \in BktThreads :
          InsertStore(t) =>
              /\ loc[t].result \in live
              /\ loc[t].result \in Range(Chain(Heap, loc[t].bucket))]_vars

\* The node that the insert has linked and not yet written
Unstored ==
    IF pc[Inserter] \in {"insert_unlock", "insert_store"}
    THEN {loc[Inserter].result} ELSE {}

\* C21: a node that an insert has linked and not yet written is on the
\* bucket's list and reads as the default-constructed pair, and the lock is
\* free for a find while the write is pending: every load that a find makes
\* from such a node obtains the default-constructed pair, not the pair that
\* is being inserted.
C21_ReadsDefaultPair ==
    [][/\ \A n \in Unstored :
            /\ n \in Range(Chain(Heap, loc[Inserter].bucket))
            /\ R_get_pair(Heap, n) = DefaultPair
       /\ pc[Inserter] = "insert_store" => mutex[loc[Inserter].bucket].owner # Inserter
       /\ FindScan(Finder) /\ loc[Finder].node \in Unstored =>
            R_get_pair(Heap, loc[Finder].node) = DefaultPair
      ]_vars

\* C21's case: find(KeyT()) has returned the node that an insert of another
\* pair linked, while the insert's write is still pending
C21_Witness ==
    /\ pc[Inserter] = "insert_store"
    /\ make_pair(loc[Inserter].key, loc[Inserter].val) # DefaultPair
    /\ loc[Inserter].key # DefaultKey
    /\ pc[Finder] = "done"
    /\ loc[Finder].result = loc[Inserter].result
    /\ R_get_pair(Heap, loc[Finder].result) = DefaultPair

\* C22: size() returns the number of entries the map held at one instant
\* between the call's start and its return. When the other thread inserts an
\* absent key and then erases a present one, the map holds size0 entries, then
\* size0 + 1, then size0 again, and never any other number: size() returns
\* size0 or size0 + 1.
C22_SizeIsASnapshot ==
    (/\ pc[Sizer] = "done"
     /\ contents[loc[FirstCall].key] = Absent
     /\ contents[loc[SecondCall].key] # Absent) =>
        loc[Sizer].s \in {size0, size0 + 1}

\* C23: no accessor call changes a key or takes an entry out of its bucket:
\* a set(v) or set_pair(p) step leaves every node with the key it held, and
\* after every step each node is in the bucket of index hash(key) mod
\* BUCKET_COUNT and no two nodes hold equal keys.
C23_KeysStay ==
    [][/\ ret'.op \in {"set", "set_pair"} =>
            \A n \in NodesOf(Heap, MapA) :
                nodes'[n].m_value[1] = nodes[n].m_value[1]
       /\ \A i \in Indexes :
            \A n \in Range(Chain(Heap', BucketOf(MapA, i))) :
                BucketIndex(nodes'[n].m_value[1]) = i
       /\ \A n1, n2 \in NodesOf(Heap', MapA) :
            n1 # n2 => nodes'[n1].m_value[1] # nodes'[n2].m_value[1]
      ]_vars

\* The values that the set calls that have stored wrote, and the initial one
Written == {ret.val} \cup {loc[t].val : t \in {u \in Setters : pc[u] = "done"}}

\* C24: for a node whose insert has returned, whatever the interleaving of
\* set, get and get_pair calls through accessors: the node keeps its key,
\* every get_pair returns the node's key with the initial value or a value
\* some set wrote, every get returns such a value, and once all set calls
\* have returned the node holds the value of one of them.
C24_AccessorsKeepKey ==
    LET node == loc[PairReader].node
    IN /\ R_get_pair(Heap, node)[1] = ret.key
       /\ R_get(Heap, node) \in Written
       /\ pc[PairReader] = "done" =>
            /\ loc[PairReader].key = ret.key
            /\ loc[PairReader].val \in Written
       /\ pc[ValueReader] = "done" => loc[ValueReader].val \in Written
       /\ (\A t \in Setters : pc[t] = "done") =>
            R_get(Heap, node) \in {loc[t].val : t \in Setters}

\* C24's case: both set calls have returned with different values, the
\* second store has replaced the first, and get_pair has read the pair of the
\* first
C24_Witness ==
    /\ \A t \in AccThreads : pc[t] = "done"
    /\ loc[1].val # loc[2].val
    /\ loc[PairReader].val # R_get(Heap, loc[PairReader].node)
    /\ loc[PairReader].val # ret.val
    /\ loc[PairReader].key = ret.key
    /\ ret.key # DefaultKey

\* The pairs held by the nodes of a sequence
PairsOf(h, seq) == [j \in 1 .. Len(seq) |-> R_get_pair(h, seq[j])]

\* C25: a traversal from begin() yields the entries in ascending bucket
\* index and, within a bucket, in list order; an insert of a new key puts
\* its node at the tail of its bucket's list, so list order is insertion
\* order; erase removes one node and insert_or_assign or set on an existing
\* key moves none, so the remaining entries keep their relative order.
C25_Order ==
    [][/\ (nodes' # nodes \/ ret'.op \in {"insert", "insert_or_assign", "index", "erase", "erase_it"}) =>
            \A i \in Indexes :
               LET b == BucketOf(MapA, i)
                   c == Chain(Heap, b)
                   c2 == Chain(Heap', b)
                   here == BucketIndex(ret'.key) = i
                   held == contents[ret'.key] # Absent
               IN IF ret'.op \in {"insert", "insert_or_assign", "index"} /\ here /\ ~held
                  THEN /\ c2 = Append(c, c2[Len(c2)])
                       /\ c2[Len(c2)] \notin live
                  ELSE IF ret'.op \in {"erase", "erase_it"} /\ here /\ held
                  THEN /\ Len(c2) = Len(c) - 1
                       /\ c2 = Without(c, B_find(Heap, b, ret'.key))
                  ELSE IF ret'.op = "clear"
                  THEN c2 = <<>>
                  ELSE c2 = c
       /\ mode' = "walk" =>
            /\ walk' = SubSeq(PairsOf(Heap', Order(Heap', MapA)), 1, Len(walk'))
            /\ \A j \in 1 .. Len(walk') - 1 :
                 BucketIndex(walk'[j][1]) <= BucketIndex(walk'[j + 1][1])
      ]_vars

\* C25's case: a traversal has reached end() over three entries, two of them
\* in one bucket and yielded in the order of their inserts, the larger key
\* first
C25_Witness ==
    /\ mode = "walk"
    /\ IsEnd(it)
    /\ Len(walk) >= 3
    /\ \E j \in 1 .. Len(walk) - 1 :
         /\ BucketIndex(walk[j][1]) = BucketIndex(walk[j + 1][1])
         /\ walk[j][1] > walk[j + 1][1]

\* The index of m_buckets that the constructor of IteratorHelper reads for
\* its test m_buckets[m_index].end() == node
I_reads(index) == {index}

\* The indexes of m_buckets that operator++ reads: the test against end()
\* of the current bucket, empty() of each bucket the do-while reaches short
\* of BUCKET_COUNT, and begin() of the bucket it stops at
Incr_reads(h, a, i) ==
    LET ref == h.nodes[i.m_ref].m_next
    IN {i.m_index} \cup
       IF ref = B_end(BucketOf(a, i.m_index))
       THEN {j \in i.m_index + 1 .. NextNonEmpty(h, a, i.m_index) : j # BUCKET_COUNT}
       ELSE {}

\* HashMap::end: iterator(m_buckets, BUCKET_COUNT, nullptr)
HM_end_reads == I_reads(BUCKET_COUNT)

\* HashMap::begin: empty() of the buckets the while loop tests, begin() of
\* the bucket it stops at, and the constructor
HM_begin_reads(h, a) ==
    LET bucket_index == FirstNonEmpty(h, a, 0)
    IN {j \in 0 .. bucket_index : j < BUCKET_COUNT} \cup I_reads(bucket_index)

\* HashMap::find: m_buckets[bucket_index].find(key) and the constructor
HM_find_reads(key) == {BucketIndex(key)} \cup I_reads(BucketIndex(key))

\* HashMap::operator[]: find, end, and insert on a miss
HM_index_reads(key) == HM_find_reads(key) \cup HM_end_reads

\* C26: every read of the bucket array by end(), begin(), find, operator[],
\* ++ and erase(iterator) uses an index below BUCKET_COUNT; building the
\* terminal iterator and stepping an iterator to the terminal state never
\* read m_buckets[BUCKET_COUNT].
C26_IndexInRange ==
    [][/\ ret'.op = "end" => HM_end_reads \subseteq Indexes
       /\ ret'.op = "begin" => HM_begin_reads(Heap, MapA) \subseteq Indexes
       /\ ret'.op = "find" => HM_find_reads(ret'.key) \subseteq Indexes
       /\ ret'.op = "index" => HM_index_reads(ret'.key) \subseteq Indexes
       /\ ret'.op \in {"incr", "erase_it"} => Incr_reads(Heap, MapA, it) \subseteq Indexes
      ]_vars

\* The bucket arrays that are allocated: new Bucket[BUCKET_COUNT] allocated
\* the sentinels of its buckets, and an array that was released holds none
AllocatedArrays == {a \in Arrays : \E i \in Indexes : B_end(BucketOf(a, i)) \in live}

\* The maps that own bucket array a
Owners(a) == {m \in DOMAIN m_buckets : m_buckets[m] = a}

\* C27: after a = std::move(b), a holds exactly the entries b held, on b's
\* bucket array, b owns no bucket array, and the bucket array a owned before
\* is released with its sentinels: every allocated bucket array is owned by
\* exactly one map.
C27_MoveAssign ==
    [][ret'.op = "move_assign" /\ ret'.m # ret'.that /\ ret'.m \in Usable /\ ret'.that \in Usable =>
          LET old == m_buckets[ret'.m]
              src == m_buckets[ret'.that]
          IN /\ m_buckets'[ret'.m] = src
             /\ m_buckets'[ret'.that] = NoArray
             /\ Entries(Heap', src) = Entries(Heap, src)
             /\ Order(Heap', src) = Order(Heap, src)
             /\ old \notin AllocatedArrays'
             /\ \A a \in AllocatedArrays' : Cardinality(Owners(a)') = 1
      ]_vars

====
